---- MODULE Spec2Model ----
(***************************************************************************)
(* Model of the crawl orchestration core of url-to-llm:                    *)
(*   crawler/src/crawler.py   URLFrontier, Crawler.crawl_host              *)
(*   crawler/src/detector.py  ChangeDetector.has_changed                   *)
(*   crawler/src/storage.py   StorageAdapter (session row, pages table)    *)
(*                                                                         *)
(* A URL string "https://" + host + tail is the record [host, tail]; tail  *)
(* is a sequence of tokens, each "/" or "#" or a word without "/" and "#". *)
(* Time is in whole seconds.                                               *)
(***************************************************************************)
EXTENDS Integers, Sequences, FiniteSets, TLC

VARIABLES
    frontier,   \* URLFrontier: [queue, seen, host_last_access]
    now,        \* datetime.utcnow(), seconds
    ret,        \* the last URLFrontier call and what it returned
    trueAdds,   \* per normalized URL: number of add calls that returned True
    handed,     \* log of get_next results: <<url, depth, time>>
    d_in,       \* ChangeDetector.has_changed: the arguments of the call
    d_out,      \* ChangeDetector.has_changed: the returned tuple
    pc,             \* crawl_host: where the coroutine stands
    cfg,            \* CrawlerSettings and the host's site, robots.txt, sitemap
    robot_parsers,  \* Crawler.robot_parsers: host -> rule lines
    pages,          \* table pages: url -> row
    sessionLog,     \* table crawl_sessions: every value written to the row
    pages_crawled,
    pages_changed,
    faults,         \* exceptions raised so far by the fetcher and the stores
    fetched,        \* log of the URLs passed to PageFetcher.fetch
    saved,          \* log of the URLs save_page wrote in this crawl
    s3,             \* log of the keys written by save_to_s3
    result,         \* what crawl_host returned
    svc,            \* CrawlerService: the job row, _run_crawl, cancel_crawl
    fcall,          \* PageFetcher.fetch: one call, its attempts and its outcome
    pure,           \* a pure function applied repeatedly: the input and each result
    mcall,          \* LLMManifest.generate_manifest: the stores it reads, the texts it returned
    writers,        \* concurrent save_page calls: per call its page, position and result
    batch,          \* cli batch: the semaphore, one task per host, the report loop
    wc              \* backend WebCrawler.crawl: queue, clock and the times of its fetches

fvars == <<ret, trueAdds, handed>>

dvars == <<d_in, d_out>>

cvars == <<pc, cfg, robot_parsers, pages, sessionLog, pages_crawled,
           pages_changed, faults, fetched, saved, s3, result>>

vars == <<frontier, now, ret, trueAdds, handed, d_in, d_out,
          pc, cfg, robot_parsers, pages, sessionLog, pages_crawled,
          pages_changed, faults, fetched, saved, s3, result, svc, fcall, pure, mcall, writers, batch, wc>>

\* no call of PageFetcher.fetch is modelled on its own
NoFetcher == fcall = <<>>

\* no pure function is applied on its own
NoPure == pure = <<>>

\* generate_manifest is not called on its own
NoManifest == mcall = <<>>

\* no save_page call runs beside the modelled one
NoWriters == writers = <<>>

\* the batch command is not modelled
NoBatch == batch = <<>>

\* no crawl of the backend WebCrawler is modelled
NoWebCrawler == wc = <<>>

\* no job of the backend service is modelled
NoService == svc = <<>>

\* the crawl_host variables when no crawl is modelled
NoCrawl ==
    /\ pc = "none" /\ cfg = <<>> /\ robot_parsers = <<>> /\ pages = <<>>
    /\ sessionLog = <<>> /\ pages_crawled = 0 /\ pages_changed = 0
    /\ faults = 0 /\ fetched = <<>> /\ saved = <<>> /\ s3 = <<>>
    /\ result = <<>>

None == <<>>

(***************************************************************************)
(* Bounds of the model.                                                    *)
(***************************************************************************)
MaxTime == 60
MaxDepthArg == 1
MaxTrueAdds == 2
MaxHanded == 5

(***************************************************************************)
(* URL strings.                                                            *)
(***************************************************************************)
Lower(t) == CASE t = "A" -> "a"
              [] t = "B" -> "b"
              [] t = "EX" -> "ex"
              [] OTHER -> t

URL(h, t) == [host |-> h, tail |-> t]

Min(S) == CHOOSE x \in S : \A y \in S : x <= y

Max(S) == CHOOSE x \in S : \A y \in S : x >= y

\* str.lstrip(c)
LStrip(t, c) ==
    LET keep == { i \in 1..Len(t) : t[i] # c } IN
    IF keep = {} THEN <<>> ELSE SubSeq(t, Min(keep), Len(t))

\* str.rstrip(c)
RStrip(t, c) ==
    LET keep == { i \in 1..Len(t) : t[i] # c } IN
    IF keep = {} THEN <<>> ELSE SubSeq(t, 1, Max(keep))

\* url.split('#')[0]
SplitFragment(t) ==
    LET at == { i \in 1..Len(t) : t[i] = "#" } IN
    IF at = {} THEN t ELSE SubSeq(t, 1, Min(at) - 1)

\* url.rstrip('/'): the host part never ends in '/', so stripping stops there
RStripSlash(t) == RStrip(t, "/")

LowerSeq(t) == [i \in 1..Len(t) |-> Lower(t[i])]

\* a normalization that strips the slash before it cuts the fragment
normalize_url_StripFirst(url) ==
    URL(Lower(url.host), LowerSeq(SplitFragment(RStripSlash(url.tail))))

\* a normalization that keeps the letter case
normalize_url_NoLower(url) ==
    URL(url.host, RStripSlash(SplitFragment(url.tail)))

normalize_url(url) ==
    URL(Lower(url.host), LowerSeq(RStripSlash(SplitFragment(url.tail))))

\* urlparse(url).netloc
netloc(url) == url.host

(***************************************************************************)
(* URLFrontier                                                             *)
(***************************************************************************)
EmptyFrontier ==
    [queue |-> <<>>, seen |-> {}, host_last_access |-> [h \in {} |-> 0]]

\* a stamp that forgets the other hosts
SetAccess_OnlyHost(hla, host, t) == [h \in {host} |-> t]

\* self.host_last_access[host] = now
SetAccess(hla, host, t) ==
    [h \in DOMAIN hla \cup {host} |-> IF h = host THEN t ELSE hla[h]]

add_NoSeenCheck(f, url, depth) ==
    LET normalized == normalize_url(url) IN
    [f   |-> [f EXCEPT !.seen = @ \cup {normalized},
                       !.queue = Append(@, <<normalized, depth>>)],
     ret |-> TRUE]

\* (the frontier argument is bound once, as a value: self in f0)
add(f0, url, depth) ==
    LET normalized == normalize_url(url) IN
    CHOOSE r \in
        { IF normalized \notin f.seen
          THEN [f   |-> [f EXCEPT !.seen = @ \cup {normalized},
                                  !.queue = Append(@, <<normalized, depth>>)],
                ret |-> TRUE]
          ELSE [f |-> f, ret |-> FALSE] : f \in {f0} } : TRUE

\* a limiter that never holds a host back
TooSoon_Never(t, last_access, rate_limit) == FALSE

\* (now - last_access) < timedelta(seconds=60 / rate_limit)
TooSoon(t, last_access, rate_limit) == (t - last_access) * rate_limit < 60

RECURSIVE get_next_scan(_, _, _, _)
\* the for loop of get_next with n iterations left
get_next_scan(f0, t, rate_limit, n) ==
    CHOOSE r \in
      { IF n = 0 \/ f.queue = <<>> THEN [f |-> f, ret |-> None]
        ELSE LET e == Head(f.queue)
                 host == netloc(e[1])
                 hla == f.host_last_access
             IN  IF host \in DOMAIN hla /\ TooSoon(t, hla[host], rate_limit)
                 THEN get_next_scan([f EXCEPT !.queue = Append(Tail(@), e)],
                                    t, rate_limit, n - 1)
                 ELSE [f   |-> [f EXCEPT !.queue = Tail(@),
                                         !.host_last_access = SetAccess(@, host, t)],
                       ret |-> e] : f \in {f0} } : TRUE

RECURSIVE get_next_scan_NoPacing(_, _, _, _)
get_next_scan_NoPacing(f, t, rate_limit, n) ==
    IF n = 0 \/ f.queue = <<>> THEN [f |-> f, ret |-> None]
    ELSE LET e == Head(f.queue)
             host == netloc(e[1])
         IN  [f   |-> [f EXCEPT !.queue = Tail(@), !.host_last_access = SetAccess(@, host, t)],
              ret |-> e]

get_next_Peek(f, t, rate_limit) ==
    LET r == get_next_scan(f, t, rate_limit, Len(f.queue)) IN
    IF r.ret = None THEN r
    ELSE [f |-> [r.f EXCEPT !.queue = Append(@, r.ret)], ret |-> r.ret]

get_next_NoPacing(f, t, rate_limit) ==
    get_next_scan_NoPacing(f, t, rate_limit, Len(f.queue))

\* a scan that gives up at the first throttled entry
get_next_HeadOnly(f, t, rate_limit) ==
    get_next_scan(f, t, rate_limit, Min({1, Len(f.queue)}))

Reverse(q) == [i \in 1..Len(q) |-> q[Len(q) + 1 - i]]

\* a scan that pops from the back of the queue
get_next_FromBack(f, t, rate_limit) ==
    LET r == get_next_scan([f EXCEPT !.queue = Reverse(@)], t, rate_limit,
                           Len(f.queue))
    IN  [f |-> [r.f EXCEPT !.queue = Reverse(@)], ret |-> r.ret]

get_next(f, t, rate_limit) == get_next_scan(f, t, rate_limit, Len(f.queue))

size(f) == Len(f.queue)

RECURSIVE add_seeds(_, _, _)
add_seeds(f, seeds, i) ==
    IF i > Len(seeds) THEN f
    ELSE add_seeds(add(f, seeds[i], 0).f, seeds, i + 1)

\* __init__: add every seed at depth 0
URLFrontier(f, seeds) == add_seeds(f, seeds, 1)

(***************************************************************************)
(* ChangeDetector                                                          *)
(* A header or column value is a string: a sequence of tokens, Q being the *)
(* double quote; Null is Python None / SQL NULL.  An Optional value is the *)
(* empty tuple (None) or a one-element tuple.  HTML is a sequence of nodes *)
(* <<kind, text, href>>.                                                   *)
(***************************************************************************)
Q == "\""

Null == <<"NULL">>

Truthy(v) == v # Null /\ v # <<>>

\* dict.get(key, default)
Get(d, key, default) == IF key \in DOMAIN d THEN d[key] ELSE default

\* str.strip('"')
StripQuotes(v) == RStrip(LStrip(v, Q), Q)

\* a node without an href attribute
NoHref == [host |-> "", tail |-> <<>>]

VisibleKinds == {"text", "a"}

IsVisible(node) == node[1] \in VisibleKinds /\ node[2] # ""

\* the words of the visible text, in document order
normalize_html(html) ==
    LET visible == SelectSeq(html, IsVisible) IN
    [i \in 1..Len(visible) |-> visible[i][2]]

\* hashlib.sha256(...).hexdigest(), taken as collision-free
compute_content_hash(text) == <<"sha256", text>>

has_changed_NoStrip(current_headers, current_content, previous_info) ==
    IF previous_info = None THEN <<TRUE, "new_page">>
    ELSE
    LET prev == previous_info[1]
        current_etag == Get(current_headers, "etag", <<>>)
        current_last_modified == Get(current_headers, "last-modified", Null)
        current_hash == compute_content_hash(normalize_html(current_content))
    IN  IF Truthy(current_etag) /\ Truthy(prev.etag)
        THEN IF current_etag = prev.etag
             THEN <<FALSE, "etag_match">> ELSE <<TRUE, "etag_changed">>
        ELSE IF /\ Truthy(current_last_modified) /\ Truthy(prev.last_modified)
                /\ current_last_modified = prev.last_modified
        THEN <<FALSE, "last_modified_match">>
        ELSE IF current_hash = prev.content_hash
        THEN <<FALSE, "content_hash_match">>
        ELSE <<TRUE, "content_changed">>

has_changed_LastModifiedDecides(current_headers, current_content, previous_info) ==
    IF previous_info = None THEN <<TRUE, "new_page">>
    ELSE
    LET prev == previous_info[1]
        current_etag == StripQuotes(Get(current_headers, "etag", <<>>))
        current_last_modified == Get(current_headers, "last-modified", Null)
        current_hash == compute_content_hash(normalize_html(current_content))
    IN  IF Truthy(current_etag) /\ Truthy(prev.etag)
        THEN IF current_etag = StripQuotes(prev.etag)
             THEN <<FALSE, "etag_match">> ELSE <<TRUE, "etag_changed">>
        ELSE IF Truthy(current_last_modified) /\ Truthy(prev.last_modified)
        THEN IF current_last_modified = prev.last_modified
             THEN <<FALSE, "last_modified_match">>
             ELSE <<TRUE, "content_changed">>
        ELSE IF current_hash = prev.content_hash
        THEN <<FALSE, "content_hash_match">>
        ELSE <<TRUE, "content_changed">>

has_changed(current_headers, current_content, previous_info) ==
    IF previous_info = None THEN <<TRUE, "new_page">>
    ELSE
    LET prev == previous_info[1]
        current_etag == StripQuotes(Get(current_headers, "etag", <<>>))
        current_last_modified == Get(current_headers, "last-modified", Null)
        current_hash == compute_content_hash(normalize_html(current_content))
    IN  IF Truthy(current_etag) /\ Truthy(prev.etag)
        THEN IF current_etag = StripQuotes(prev.etag)
             THEN <<FALSE, "etag_match">> ELSE <<TRUE, "etag_changed">>
        ELSE IF /\ Truthy(current_last_modified) /\ Truthy(prev.last_modified)
                /\ current_last_modified = prev.last_modified
        THEN <<FALSE, "last_modified_match">>
        ELSE IF current_hash = prev.content_hash
        THEN <<FALSE, "content_hash_match">>
        ELSE <<TRUE, "content_changed">>

(***************************************************************************)
(* StorageAdapter: the pages table and the crawl_sessions row.             *)
(***************************************************************************)
\* dict / table update: d[key] = value
Put(d, key, value) ==
    [k \in DOMAIN d \cup {key} |-> IF k = key THEN value ELSE d[k]]

\* SELECT content_hash, etag, last_modified ... WHERE url = $1
get_page_info(table, url) ==
    IF url \in DOMAIN table
    THEN << [content_hash  |-> table[url].content_hash,
             etag          |-> table[url].etag,
             last_modified |-> table[url].last_modified] >>
    ELSE None

\* insert or update by url; returns whether the content hash is new
\* an upsert that reports every write as a change
save_page_AlwaysChanged(table, page) ==
    [table |-> Put(table, page.url, page.row), ret |-> TRUE]

save_page(table, page) ==
    IF page.url \in DOMAIN table
    THEN [table |-> Put(table, page.url, page.row),
          ret   |-> table[page.url].content_hash # page.row.content_hash]
    ELSE [table |-> Put(table, page.url, page.row), ret |-> TRUE]

\* the row complete_crawl_session writes
SessionRow(status, crawled, changed) ==
    [status |-> status, pages_crawled |-> crawled, pages_changed |-> changed]

(***************************************************************************)
(* The web site of the crawled host, as PageFetcher sees it.               *)
(***************************************************************************)
Host == "ex"

Root == URL(Host, <<>>)
IndexHtml == URL(Host, <<"/", "index.html">>)
PageA == URL(Host, <<"/", "a">>)
PageB == URL(Host, <<"/", "b">>)
PageX == URL(Host, <<"/", "p", "/", "x">>)

NoHeaders == [k \in {} |-> <<>>]

Response(status, headers, content, error) ==
    [status |-> status, headers |-> headers, content |-> content, error |-> error]

NotFound == Response(404, NoHeaders, << <<"text", "notfound", NoHref>> >>, Null)

\* a root page linking to two children
SiteThree(url) ==
    CASE url = Root ->
            Response(200, [etag |-> <<Q, "v1", Q>>],
                     << <<"a", "w1", URL(Host, <<"/", "a">>)>>,
                        <<"a", "w2", URL(Host, <<"/", "b">>)>> >>, Null)
      [] url = PageA -> Response(200, NoHeaders, << <<"text", "w3", NoHref>> >>, Null)
      [] url = PageB -> Response(200, NoHeaders, << <<"text", "w4", NoHref>> >>, Null)
      [] OTHER -> NotFound

\* cycles, a self-link, a fragment link, an external link, a blocked page
SiteCyclic(url) ==
    CASE url = Root ->
            Response(200, [etag |-> <<Q, "v1", Q>>],
                     << <<"a", "w1", URL(Host, <<"/", "A", "/">>)>>,
                        <<"a", "w2", URL(Host, <<"#", "top">>)>>,
                        <<"script", "x", NoHref>>,
                        <<"a", "w5", URL(Host, <<"/", "p", "/", "x">>)>>,
                        <<"a", "w6", URL("ot", <<"/", "a">>)>>,
                        <<"link", "", URL("EX", <<"/", "b">>)>> >>, Null)
      [] url = PageA ->
            Response(200, [k \in {"last-modified"} |-> <<"m1">>],
                     << <<"a", "w3", URL(Host, <<"/">>)>>,
                        <<"a", "w3", URL(Host, <<"/", "a">>)>>,
                        <<"a", "w4", URL(Host, <<"/", "b">>)>> >>, Null)
      [] url = PageB ->
            Response(403, NoHeaders, << <<"text", "denied", NoHref>> >>, Null)
      [] url = PageX ->
            Response(200, NoHeaders,
                     << <<"a", "w4", URL(Host, <<"/", "b">>)>> >>, Null)
      [] OTHER -> NotFound

SiteResponse(site, url) ==
    IF site = "three" THEN SiteThree(url) ELSE SiteCyclic(url)

\* page.goto failed: status 500, no content, the error text
NavError == Response(500, NoHeaders, <<>>, <<"navigation error">>)

(***************************************************************************)
(* robots.txt and sitemap.xml                                              *)
(***************************************************************************)
\* the lines of robots.txt: a rule line of the "*" entry is
\* <<allowance, path>>, any other line is <<text>>
RobotsFiles ==
    [none    |-> <<>>,
     error   |-> <<>>,
     garbage |-> << <<"<html>">>, <<"not found">> >>,
     private |-> << <<FALSE, <<"/", "p", "/">> >> >>]

\* fetch_robots_txt: the text of a 200 response; None when the request
\* raised or the status was not 200
fetch_robots_txt(kind) ==
    IF kind \in {"none", "error"} THEN None ELSE RobotsFiles[kind]

IsRuleLine(line) == Len(line) = 2

\* RobotFileParser.parse: lines that are no rule are passed over
parse(lines) == SelectSeq(lines, IsRuleLine)

SitemapLocs ==
    << URL(Host, <<"/", "b">>), URL(Host, <<"/", "p", "/", "x">>),
       URL("ot", <<"/", "a">>) >>

\* sitemap.xml: whether ET.fromstring accepts it, and its <loc> elements
SitemapFiles ==
    [none      |-> <<>>,
     some      |-> << [wellformed |-> TRUE, locs |-> SitemapLocs] >>,
     malformed |-> << [wellformed |-> FALSE, locs |-> SitemapLocs] >>]

\* fetch_sitemap: the text of the first 200 response, None when there is none
fetch_sitemap(kind) == SitemapFiles[kind]

IsPrefix(p, t) == Len(p) <= Len(t) /\ SubSeq(t, 1, Len(p)) = p

\* urlparse(url).path, "/" when empty
UrlPath(url) == IF url.tail = <<>> THEN <<"/">> ELSE url.tail

\* the first rule line that applies decides; no line: allowed
Allowance(rules, path) ==
    LET applies == { i \in 1..Len(rules) : IsPrefix(rules[i][2], path) } IN
    IF applies = {} THEN TRUE ELSE rules[Min(applies)][1]

can_fetch_AllowAll(parsers, host, url) == TRUE

can_fetch(parsers, host, url) ==
    IF host \in DOMAIN parsers THEN Allowance(parsers[host], UrlPath(url))
    ELSE TRUE

\* _load_robots_txt: a parser only when robots.txt came back non-empty
load_robots_txt(parsers, host, robots_content) ==
    IF robots_content # <<>> THEN Put(parsers, host, parse(robots_content))
    ELSE parsers

RECURSIVE add_each_AnyHost(_, _, _, _, _)
\* the loop without its test of the host
add_each_AnyHost(f, urls, host, depth, i) ==
    IF i > Len(urls) THEN f
    ELSE add_each_AnyHost(add(f, urls[i], depth).f, urls, host, depth, i + 1)

RECURSIVE add_each(_, _, _, _, _)
\* for url in urls[i:]: if urlparse(url).netloc == host: frontier.add(url, depth)
add_each(f, urls, host, depth, i) ==
    IF i > Len(urls) THEN f
    ELSE add_each(IF netloc(urls[i]) = host THEN add(f, urls[i], depth).f ELSE f,
                  urls, host, depth, i + 1)

\* a parse that keeps the <loc> elements read before the XML error
parse_sitemap_Partial(f, host, sitemap_content) ==
    IF sitemap_content = None THEN f
    ELSE add_each(f, sitemap_content[1].locs, host, 1, 1)

\* _parse_sitemap: nothing without a sitemap; ET.fromstring raises on a
\* malformed one and the handler only logs; otherwise every <loc> of the
\* host enters at depth 1
parse_sitemap(f, host, sitemap_content) ==
    IF sitemap_content = None THEN f
    ELSE IF ~sitemap_content[1].wellformed THEN f
    ELSE add_each(f, sitemap_content[1].locs, host, 1, 1)

HasHref(node) == node[1] \in {"a", "link"} /\ node[3] # NoHref

\* _extract_links: the href of every <a> and <link>, in document order
extract_links(content) ==
    LET tags == SelectSeq(content, HasHref) IN
    [i \in 1..Len(tags) |-> tags[i][3]]

\* links that enter at the depth of their parent
add_links_ParentDepth(f, links, host, depth) == add_each(f, links, host, depth - 1, 1)

\* lines 218-220: the links of the crawled host enter at depth + 1
add_links(f, links, host, depth) == add_each(f, links, host, depth, 1)

LStripSlash(t) == LStrip(t, "/")

\* f"pages/{host}/{path.lstrip('/')}", plus '/index.html' unless it ends in '.html'
s3_key(host, url) ==
    LET path == LStripSlash(url.tail) IN
    <<"pages", "/", host, "/">> \o path \o
        (IF path # <<>> /\ path[Len(path)] = "index.html" THEN <<>>
         ELSE <<"/", "index.html">>)

ManifestKey(host) == <<"llm", "/", host, "/", "llm.txt">>

(***************************************************************************)
(* Crawler.crawl_host                                                      *)
(***************************************************************************)
MaxFaults == 2

FetchSeconds == 1

SleepSeconds == 1

MaxPagesSettings == {1, 3, 10}

MaxDepthSettings == {1, 10}

CrawlRateLimits == {30, 60}

\* every setting with a robots.txt and sitemap that are absent or usable,
\* and the hosts whose robots.txt request fails or returns no rule and
\* whose sitemap is absent or malformed
Configs ==
    [site : {"three", "cyclic"},
     robots : {"none", "private"},
     sitemap : {"none", "some"},
     max_pages_per_host : MaxPagesSettings,
     max_depth : MaxDepthSettings,
     crawl_rate_limit : CrawlRateLimits]
    \cup
    [site : {"three", "cyclic"},
     robots : {"error", "garbage"},
     sitemap : {"none", "malformed"},
     max_pages_per_host : {10},
     max_depth : {10},
     crawl_rate_limit : {60}]

Row(hash, etag, lm, status) ==
    [content_hash |-> hash, etag |-> etag, last_modified |-> lm,
     status_code |-> status, is_blocked |-> status \in {403, 503},
     error_message |-> Null]

NoRows == [u \in {} |-> <<>>]

\* rows left by an earlier crawl
EarlierRows ==
    [u \in {Root, PageA, PageX} |->
        CASE u = Root  -> Row(compute_content_hash(<<"old">>), <<"v1">>, Null, 200)
          [] u = PageA -> Row(compute_content_hash(<<"w3", "w3", "w4">>), Null, <<"m1">>, 200)
          [] u = PageX -> Row(compute_content_hash(<<"w4">>), Null, Null, 200)]

InitialTables == {NoRows, EarlierRows}

seed_urls_RootOnly(host) == << URL(host, <<"/">>) >>

seed_urls(host) == << URL(host, <<"/">>), URL(host, <<"/", "index.html">>) >>

sleep_NoAdvance(t) == t

\* await asyncio.sleep(1)
sleep(t) == t + SleepSeconds

CrawlInit ==
    /\ pc = "start"
    /\ cfg \in Configs
    /\ pages \in InitialTables
    /\ robot_parsers = [h \in {} |-> <<>>]
    /\ sessionLog = <<>>
    /\ pages_crawled = 0 /\ pages_changed = 0
    /\ faults = 0
    /\ fetched = <<>> /\ saved = <<>> /\ s3 = <<>>
    /\ result = <<>>
    /\ frontier = EmptyFrontier
    /\ now = 0
    /\ ret = [op |-> "init"]
    /\ trueAdds = <<>>
    /\ handed = <<>>
    /\ d_in = <<>> /\ d_out = <<>>
    /\ NoService /\ NoFetcher /\ NoPure /\ NoManifest /\ NoWriters /\ NoBatch /\ NoWebCrawler

\* lines 132-152: session row, seeds, robots.txt, sitemap
CrawlStart ==
    /\ pc = "start"
    /\ \/ /\ sessionLog' = <<SessionRow("running", 0, 0)>>
          /\ frontier' = parse_sitemap(URLFrontier(EmptyFrontier, seed_urls(Host)),
                                       Host, fetch_sitemap(cfg.sitemap))
          /\ robot_parsers' = load_robots_txt(robot_parsers, Host,
                                              fetch_robots_txt(cfg.robots))
          /\ pc' = "loop"
          /\ UNCHANGED faults
       \/ \* start_crawl_session raises
          /\ faults < MaxFaults
          /\ faults' = faults + 1
          /\ pc' = "raised"
          /\ UNCHANGED <<sessionLog, frontier, robot_parsers>>
    /\ UNCHANGED <<cfg, pages, pages_crawled, pages_changed, fetched, saved, s3,
                   result, now, fvars, dvars, svc, fcall, pure, mcall, writers, batch, wc>>

\* while frontier.size() > 0 and pages_crawled < max_pages_per_host
LoopCond == size(frontier) > 0 /\ pages_crawled < cfg.max_pages_per_host

NextEntry == get_next(frontier, now, cfg.crawl_rate_limit)

\* lines 157-161: nothing ready, sleep and retry
CrawlSleep ==
    /\ pc = "loop" /\ LoopCond
    /\ \E entry \in {NextEntry} :
        /\ entry.ret = None
        /\ frontier' = entry.f
    /\ now' = sleep(now)
    /\ UNCHANGED <<cvars, fvars, dvars, svc, fcall, pure, mcall, writers, batch, wc>>

\* lines 165-168: blocked by robots.txt
CrawlSkipRobots ==
    /\ pc = "loop" /\ LoopCond
    /\ \E entry \in {NextEntry} :
        /\ entry.ret # None
        /\ ~can_fetch(robot_parsers, Host, entry.ret[1])
        /\ frontier' = entry.f
        /\ handed' = Append(handed, <<entry.ret[1], entry.ret[2], now>>)
    /\ UNCHANGED <<cvars, now, ret, trueAdds, dvars, svc, fcall, pure, mcall, writers, batch, wc>>

\* lines 170-173: deeper than max_depth
CrawlSkipDepth ==
    /\ pc = "loop" /\ LoopCond
    /\ \E entry \in {NextEntry} :
        /\ entry.ret # None
        /\ can_fetch(robot_parsers, Host, entry.ret[1])
        /\ entry.ret[2] > cfg.max_depth
        /\ frontier' = entry.f
        /\ handed' = Append(handed, <<entry.ret[1], entry.ret[2], now>>)
    /\ UNCHANGED <<cvars, now, ret, trueAdds, dvars, svc, fcall, pure, mcall, writers, batch, wc>>

PageRecord_RawHash(url, resp) ==
    [url |-> url,
     row |-> [content_hash |->
                  compute_content_hash(
                      [i \in 1..(2 * Len(resp.content)) |->
                          resp.content[(i + 1) \div 2][IF i % 2 = 1 THEN 1 ELSE 2]]),
              etag |-> Get(resp.headers, "etag", Null),
              last_modified |-> Get(resp.headers, "last-modified", Null),
              status_code |-> resp.status,
              is_blocked |-> resp.status \in {403, 503},
              error_message |-> resp.error]]

PageRecord_DropError(url, resp) ==
    [url |-> url,
     row |-> [content_hash |-> compute_content_hash(normalize_html(resp.content)),
              etag |-> Get(resp.headers, "etag", Null),
              last_modified |-> Get(resp.headers, "last-modified", Null),
              status_code |-> resp.status,
              is_blocked |-> resp.status \in {403, 503},
              error_message |-> Null]]

\* lines 188-201: the record built from what fetch returned
PageRecord(url, resp) ==
    [url |-> url,
     row |-> [content_hash |-> compute_content_hash(normalize_html(resp.content)),
              etag |-> Get(resp.headers, "etag", Null),
              last_modified |-> Get(resp.headers, "last-modified", Null),
              status_code |-> resp.status,
              is_blocked |-> resp.status \in {403, 503},
              error_message |-> resp.error]]

\* a guard that forgets the change detector's verdict
should_store_AnyContent(changed, content) == content # <<>>

\* line 209: if has_changed and content
should_store(changed, content) == changed /\ content # <<>>

PageOutcomes ==
    {"ok", "nav_error", "fetch_raises", "get_page_info_raises",
     "save_page_raises", "save_to_s3_raises"}

\* fetcher.fetch(url) as it returns: the site's answer, or a navigation error
FetchResult(outcome, url) ==
    IF outcome = "nav_error" THEN NavError ELSE SiteResponse(cfg.site, url)

\* lines 175-234: fetch, compare, save, store, enqueue links, count
CrawlPage ==
    /\ pc = "loop" /\ LoopCond
    /\ \E entry \in {NextEntry} :
        /\ entry.ret # None
        /\ can_fetch(robot_parsers, Host, entry.ret[1])
        /\ entry.ret[2] <= cfg.max_depth
        /\ \E outcome \in PageOutcomes :
           \E url \in {entry.ret[1]}, depth \in {entry.ret[2]} :
           \E resp \in {FetchResult(outcome, url)} :
           \E prev_info \in {get_page_info(pages, url)} :
           \E page \in {PageRecord(url, resp)} :
           \E sp \in {save_page(pages, page)} :
           \E links \in {extract_links(resp.content)} :
            LET changed == has_changed(resp.headers, resp.content, prev_info)[1]
                stores == should_store(changed, resp.content)
                didSave == outcome \in {"ok", "nav_error", "save_to_s3_raises"}
                completed == outcome \in {"ok", "nav_error"}
            IN  /\ outcome # "ok" => faults < MaxFaults
                /\ outcome = "save_to_s3_raises" => stores
                /\ faults' = IF outcome = "ok" THEN faults ELSE faults + 1
                /\ fetched' = Append(fetched, url)
                /\ handed' = Append(handed, <<url, depth, now>>)
                /\ ret' = [op |-> "page", url |-> url, outcome |-> outcome]
                /\ now' = now + FetchSeconds
                /\ pages' = IF didSave THEN sp.table ELSE pages
                /\ saved' = IF didSave THEN Append(saved, url) ELSE saved
                /\ pages_changed' = IF didSave /\ sp.ret THEN pages_changed + 1
                                    ELSE pages_changed
                /\ s3' = IF completed /\ stores THEN Append(s3, s3_key(Host, url))
                         ELSE s3
                /\ frontier' = IF completed /\ resp.status = 200 /\ resp.content # <<>>
                               THEN add_links(entry.f, links, Host, depth + 1)
                               ELSE entry.f
                /\ pages_crawled' = IF completed THEN pages_crawled + 1
                                    ELSE pages_crawled
    /\ UNCHANGED <<pc, cfg, robot_parsers, sessionLog, result, trueAdds, dvars, svc, fcall, pure, mcall, writers, batch, wc>>

\* lines 236-239: the loop is left, complete_crawl_session
CrawlComplete ==
    /\ pc = "loop" /\ ~LoopCond
    /\ \/ /\ sessionLog' = Append(sessionLog,
                 SessionRow("completed", pages_crawled, pages_changed))
          /\ pc' = "manifest"
          /\ UNCHANGED faults
       \/ \* complete_crawl_session raises
          /\ faults < MaxFaults
          /\ faults' = faults + 1
          /\ pc' = "handler"
          /\ UNCHANGED sessionLog
    /\ UNCHANGED <<cfg, robot_parsers, pages, pages_crawled, pages_changed,
                   fetched, saved, s3, result, frontier, now, fvars, dvars, svc, fcall, pure, mcall, writers, batch, wc>>

\* lines 241-250: _generate_manifest, then return
CrawlManifest ==
    /\ pc = "manifest"
    /\ \/ /\ s3' = Append(s3, ManifestKey(Host))
          /\ pc' = "returned"
          /\ result' = << [status |-> "completed",
                           pages_crawled |-> pages_crawled,
                           pages_changed |-> pages_changed] >>
          /\ UNCHANGED faults
       \/ \* get_host_pages or the llm.txt write raises
          /\ faults < MaxFaults
          /\ faults' = faults + 1
          /\ pc' = "handler"
          /\ UNCHANGED <<s3, result>>
       \/ \* _save_pages_json raises after llm.txt was written
          /\ faults < MaxFaults
          /\ faults' = faults + 1
          /\ s3' = Append(s3, ManifestKey(Host))
          /\ pc' = "handler"
          /\ UNCHANGED result
    /\ UNCHANGED <<cfg, robot_parsers, pages, sessionLog, pages_crawled,
                   pages_changed, fetched, saved, frontier, now, fvars, dvars, svc, fcall, pure, mcall, writers, batch, wc>>

failed_row_NoCounters(crawled, changed) == SessionRow("failed", 0, 0)

\* lines 254-256: complete_crawl_session(session_id, pages_crawled, pages_changed,
\* status="failed")
failed_row(crawled, changed) == SessionRow("failed", crawled, changed)

\* lines 252-257: mark the session failed and re-raise
CrawlHandler ==
    /\ pc = "handler"
    /\ \/ /\ sessionLog' = Append(sessionLog, failed_row(pages_crawled, pages_changed))
          /\ ret' = [op |-> "handler", marked |-> TRUE]
       \/ \* complete_crawl_session raises again
          /\ ret' = [op |-> "handler", marked |-> FALSE]
          /\ UNCHANGED sessionLog
    /\ pc' = "raised"
    /\ UNCHANGED <<cfg, robot_parsers, pages, pages_crawled, pages_changed, faults,
                   fetched, saved, s3, result, frontier, now, trueAdds, handed,
                   dvars, svc, fcall, pure, mcall, writers, batch, wc>>

CrawlNext ==
    \/ CrawlStart
    \/ CrawlSleep
    \/ CrawlSkipRobots
    \/ CrawlSkipDepth
    \/ CrawlPage
    \/ CrawlComplete
    \/ CrawlManifest
    \/ CrawlHandler

SpecCrawl == CrawlInit /\ [][CrawlNext]_vars

\* the event loop keeps running the coroutine; every await returns
SpecCrawlFair == CrawlInit /\ [][CrawlNext]_vars /\ WF_vars(CrawlNext)

Terminated == pc \in {"returned", "raised"}

(***************************************************************************)
(* Claims about crawl_host                                                 *)
(***************************************************************************)
FetchedURLs == { fetched[i] : i \in 1..Len(fetched) }

SavedURLs == { saved[i] : i \in 1..Len(saved) }

\* the session row as last written
SessionStatus == sessionLog[Len(sessionLog)].status

(***************************************************************************)
(* C4  Crawl termination: for every link graph of the model, cycles and    *)
(* self-links included, crawl_host eventually leaves its loop and ends: it *)
(* returns with the session completed, or it raises after its handler ran. *)
(***************************************************************************)
C4_Terminates ==
    <>(\/ pc = "returned" /\ SessionStatus = "completed"
       \/ pc = "raised")

\* a crawl of the cyclic site that had to wait on the rate limiter has returned
C4_Witness ==
    /\ pc = "returned" /\ cfg.site = "cyclic"
    /\ Root \in FetchedURLs /\ PageA \in FetchedURLs /\ PageB \in FetchedURLs
    /\ now > Len(fetched) * FetchSeconds
    /\ SessionStatus = "completed"

\* the 3-page host, no robots.txt, no sitemap, max_pages = 10, nothing raised
ThreePageScenario ==
    /\ cfg.site = "three" /\ cfg.robots = "none" /\ cfg.sitemap = "none"
    /\ cfg.max_pages_per_host = 10
    /\ faults = 0

C6_AsStated ==
    /\ Len(fetched) <= cfg.max_pages_per_host
    /\ pages_crawled <= cfg.max_pages_per_host

(***************************************************************************)
(* C7  robots.txt compliance: a URL whose path robots.txt disallows for    *)
(* "*" is never passed to the fetcher, no page row is created or updated   *)
(* for it, and pages_crawled counts only fetched, allowed URLs.            *)
(***************************************************************************)
RobotsDisallows(url) ==
    LET rules == RobotsFiles[cfg.robots] IN
    \E i \in 1..Len(rules) :
        /\ Len(rules[i]) = 2
        /\ ~rules[i][1]
        /\ IsPrefix(rules[i][2], UrlPath(url))
        /\ \A j \in 1..(i - 1) : ~IsPrefix(rules[j][2], UrlPath(url))

C7_RobotsCompliance ==
    pc # "start" =>
        /\ \A u \in FetchedURLs \cup SavedURLs : ~RobotsDisallows(u)
        /\ \A u \in DOMAIN pages :
              RobotsDisallows(u) => u \in DOMAIN EarlierRows /\ pages[u] = EarlierRows[u]
        /\ pages_crawled <= Cardinality(FetchedURLs)

\* the disallowed /p/x, discovered as a link of the root, was taken and skipped
C7_Witness ==
    /\ pc = "returned" /\ cfg.robots = "private" /\ cfg.sitemap = "none"
    /\ \E i \in 1..Len(handed) : handed[i][1] = PageX
    /\ PageX \notin FetchedURLs
    /\ PageX \in DOMAIN pages
    /\ Len(fetched) >= 3

(***************************************************************************)
(* C8 as stated: the session is created in status running, its status      *)
(* changes at most once, to completed or to failed, and after that the row *)
(* is never written again.                                                 *)
(***************************************************************************)
C8_AsStated ==
    /\ pc \notin {"start", "raised"} => Len(sessionLog) >= 1
    /\ Len(sessionLog) >= 1 => sessionLog[1].status = "running"
    /\ Len(sessionLog) <= 2
    /\ Len(sessionLog) = 2 => sessionLog[2].status \in {"completed", "failed"}

\* the last step was a page iteration
PageStep == Len(fetched') = Len(fetched) + 1

\* what fetch returned in the last page iteration
LastResponse == FetchResult(ret.outcome, ret.url)

\* the last fetch returned an error outcome and every storage call returned
FetchErrorReturned ==
    /\ ret.op = "page" /\ ret.outcome \in {"ok", "nav_error"}
    /\ LastResponse.status # 200

(***************************************************************************)
(* C12  Page-level fetch errors are not fatal: when fetch returns an error *)
(* outcome (navigation error or timeout: status 500 with the error text;   *)
(* or a non-200 status) and the storage calls return, the page row of the  *)
(* URL carries that status code and error_message, is_blocked is true      *)
(* exactly for 403 and 503, the session row is untouched (running), the    *)
(* page is counted and control is back at the head of the loop.            *)
(***************************************************************************)
C12_FetchErrorsNotFatal ==
    [][ (PageStep /\ FetchErrorReturned') =>
            /\ ret'.url \in DOMAIN pages'
            /\ pages'[ret'.url].status_code = LastResponse'.status
            /\ pages'[ret'.url].error_message = LastResponse'.error
            /\ pages'[ret'.url].is_blocked = (LastResponse'.status \in {403, 503})
            /\ sessionLog' = sessionLog /\ SessionStatus' = "running"
            /\ pages_crawled' = pages_crawled + 1
            /\ pc' = "loop" ]_vars

\* a navigation error was recorded and the loop has more to do
C12_Witness ==
    /\ ret.op = "page" /\ ret.outcome = "nav_error"
    /\ pages[ret.url].status_code = 500
    /\ pages[ret.url].error_message = <<"navigation error">>
    /\ PageB \in DOMAIN pages /\ pages[PageB].is_blocked
    /\ pc = "loop" /\ LoopCond

\* a storage call of the last page iteration raised
StorageRaised ==
    /\ ret.op = "page"
    /\ ret.outcome \in {"get_page_info_raises", "save_page_raises", "save_to_s3_raises"}

(***************************************************************************)
(* C13 as stated: once get_page_info, save_page or the content-store write *)
(* has raised in a page iteration, the crawl is out of its loop, on its    *)
(* way to the failed session or there, and it never returns completed.     *)
(***************************************************************************)
C13_AsStated ==
    StorageRaised =>
        /\ pc \in {"handler", "raised"}
        /\ SessionStatus \in {"running", "failed"}

(***************************************************************************)
(* C14 as stated: when crawl_host returns, the pages_crawled it reports    *)
(* and writes to the session row equals the number of page rows written    *)
(* during the crawl.                                                       *)
(***************************************************************************)
C14_AsStated ==
    pc = "returned" =>
        /\ result[1].pages_crawled = Len(saved)
        /\ sessionLog[Len(sessionLog)].pages_crawled = Len(saved)

(***************************************************************************)
(* C17 as stated: when fetch has given up and raised after its last        *)
(* attempt, a page row with error_message set has been written for that    *)
(* URL in this crawl.                                                      *)
(***************************************************************************)
C17_AsStated ==
    (ret.op = "page" /\ ret.outcome = "fetch_raises") =>
        /\ ret.url \in SavedURLs
        /\ ret.url \in DOMAIN pages
        /\ pages[ret.url].error_message # Null

C30_StoreOnlyOnChange ==
    [][ PageStep =>
          LET url == ret'.url
              resp == FetchResult(ret'.outcome, url)
              verdict == has_changed(resp.headers, resp.content,
                                     get_page_info(pages, url))
          IN  /\ s3' # s3 =>
                    /\ verdict[1]
                    /\ resp.content # <<>>
                    /\ s3' = Append(s3, s3_key(Host, url))
              /\ ~verdict[1] => s3' = s3
    ]_vars

\* the root page, whose ETag equals the stored one, was processed without a
\* write, and the content of another page was written
C30_Witness ==
    /\ pc = "returned" /\ faults = 0
    /\ Root \in FetchedURLs
    /\ \A i \in 1..Len(s3) : s3[i] # s3_key(Host, Root)
    /\ \E i \in 1..Len(s3) : s3[i] = s3_key(Host, PageB)

\* the hrefs of the page the site serves at url, as the frontier spells them
LinksOf(url) ==
    LET links == extract_links(SiteResponse(cfg.site, url).content) IN
    { normalize_url(links[i]) : i \in 1..Len(links) }

\* where an entry <<url, depth>> of the frontier can come from
EntryOrigin(url, depth) ==
    \/ depth = 0 /\ url \in {Root, IndexHtml}
    \/ /\ depth = 1 /\ cfg.sitemap = "some"
       /\ \E i \in 1..Len(SitemapLocs) : url = normalize_url(SitemapLocs[i])
    \/ \E i \in 1..Len(handed) :
          /\ handed[i][2] = depth - 1
          /\ handed[i][1] \in FetchedURLs
          /\ url \in LinksOf(handed[i][1])

\* the entries taken from the frontier that lie within the depth limit
HandedInDepth == { i \in 1..Len(handed) : handed[i][2] <= cfg.max_depth }

(***************************************************************************)
(* C31  Depth limit: seeds enter the frontier at depth 0, sitemap URLs at  *)
(* depth 1 and extracted links at the depth of the page they were found on *)
(* plus 1; a URL taken from the frontier at a depth above max_depth is     *)
(* neither fetched nor persisted, and pages_crawled counts only entries    *)
(* within the limit.                                                       *)
(***************************************************************************)
C31_DepthLimit ==
    pc \notin {"start", "raised"} \/ sessionLog # <<>> =>
        /\ \A i \in 1..Len(frontier.queue) :
              EntryOrigin(frontier.queue[i][1], frontier.queue[i][2])
        /\ \A i \in 1..Len(handed) :
              /\ EntryOrigin(handed[i][1], handed[i][2])
              /\ handed[i][2] > cfg.max_depth =>
                    /\ handed[i][1] \notin FetchedURLs \cup SavedURLs
                    /\ handed[i][1] \in DOMAIN pages =>
                          /\ handed[i][1] \in DOMAIN EarlierRows
                          /\ pages[handed[i][1]] = EarlierRows[handed[i][1]]
        /\ \A u \in FetchedURLs :
              \E i \in HandedInDepth : handed[i][1] = u
        /\ pages_crawled <= Cardinality(HandedInDepth)

\* with max_depth = 1, /b was found on a page of depth 1, taken from the
\* frontier at depth 2 and dropped
C31_Witness ==
    /\ pc = "returned" /\ cfg.max_depth = 1
    /\ \E i \in 1..Len(handed) : handed[i][1] = PageB /\ handed[i][2] = 2
    /\ PageB \notin FetchedURLs
    /\ PageB \notin DOMAIN pages
    /\ pages_crawled >= 2

\* the entries the last step appended to the queue
Enqueued ==
    { frontier'.queue[i] : i \in 1..Len(frontier'.queue) }
        \ { frontier.queue[i] : i \in 1..Len(frontier.queue) }

(***************************************************************************)
(* C32  Same-host link feedback: a page iteration enqueues links only when *)
(* the page was fetched with status 200 and non-empty content and was      *)
(* processed to the end; every entry it enqueues is a link of that page    *)
(* whose host equals the crawl host, at the depth of the page plus 1; so   *)
(* every URL the frontier has seen, and every URL fetched or persisted,    *)
(* belongs to the crawl host.                                              *)
(***************************************************************************)
C32_SameHostLinks ==
    [][ /\ PageStep =>
            LET resp == FetchResult(ret'.outcome, ret'.url)
                links == extract_links(resp.content)
                depth == handed'[Len(handed')][2]
            IN  /\ Enqueued # {} =>
                      /\ resp.status = 200 /\ resp.content # <<>>
                      /\ ret'.outcome = "ok"
                /\ \A e \in Enqueued :
                      /\ netloc(e[1]) = Host
                      /\ e[2] = depth + 1
                      /\ \E i \in 1..Len(links) :
                            /\ netloc(links[i]) = Host
                            /\ normalize_url(links[i]) = e[1]
        /\ \A u \in frontier'.seen \cup { fetched'[i] : i \in 1..Len(fetched') }
                      \cup { saved'[i] : i \in 1..Len(saved') } :
              netloc(u) = Host
    ]_vars

\* the root of the cyclic site was processed: its links /A/ and /p/x were
\* enqueued, its links to the host ot and to the host spelled EX were not
C32_Witness ==
    /\ pc = "loop" /\ ret.op = "page" /\ ret.url = Root /\ ret.outcome = "ok"
    /\ cfg.site = "cyclic" /\ cfg.sitemap = "none"
    /\ \E i \in 1..Len(frontier.queue) : frontier.queue[i] = <<PageA, 1>>
    /\ \E i \in 1..Len(frontier.queue) : frontier.queue[i] = <<PageX, 1>>
    /\ URL("ot", <<"/", "a">>) \notin frontier.seen
    /\ PageB \notin frontier.seen

NonDecreasing(depths) ==
    \A i, j \in 1..Len(depths) : i < j => depths[i] <= depths[j]

\* the depths of the entries taken so far, then of the entries still queued
DepthsInOrder ==
    [i \in 1..(Len(handed) + Len(frontier.queue)) |->
        IF i <= Len(handed) THEN handed[i][2]
        ELSE frontier.queue[i - Len(handed)][2]]

(***************************************************************************)
(* C33  Breadth-first order: within one crawl_host run every URL handed    *)
(* out is the entry at the front of the queue, the entries behind it keep  *)
(* their order and new entries go to the back; a get_next call that finds  *)
(* the host throttled leaves the order of the queue as it was; so URLs are *)
(* handed out in the order they were enqueued and the depths of            *)
(* successively dequeued URLs never decrease.                              *)
(***************************************************************************)
C33_BreadthFirst ==
    [][ pc = "loop" =>
          /\ handed' # handed =>
                /\ handed' = Append(handed, <<Head(frontier.queue)[1],
                                              Head(frontier.queue)[2], now>>)
                /\ Len(frontier'.queue) >= Len(frontier.queue) - 1
                /\ SubSeq(frontier'.queue, 1, Len(frontier.queue) - 1)
                      = Tail(frontier.queue)
          /\ handed' = handed => frontier'.queue = frontier.queue
          /\ NonDecreasing(DepthsInOrder')
    ]_vars

\* the crawl waited for the rate limiter between two URLs and handed out
\* URLs of depth 0, 1 and 2 in that order
C33_Witness ==
    /\ pc = "returned" /\ cfg.site = "cyclic" /\ cfg.crawl_rate_limit = 30
    /\ \E i \in 1..(Len(handed) - 1) : handed[i + 1][3] - handed[i][3] > FetchSeconds
    /\ \E i, j, k \in 1..Len(handed) :
          /\ i < j /\ j < k
          /\ handed[i][2] = 0 /\ handed[j][2] = 1 /\ handed[k][2] = 2

\* the hand-outs that led to a page fetch (a URL is handed out at most once)
FetchHandOuts == { i \in 1..Len(handed) : handed[i][1] \in FetchedURLs }

(***************************************************************************)
(* C34  Single flight per host: within one crawl_host run every fetch      *)
(* belongs to its own hand-out, the next URL is handed out only after the  *)
(* fetch and persistence of the previous one have finished (FetchSeconds   *)
(* after it was handed out), and never earlier than 60/crawl_rate_limit    *)
(* seconds after the previous hand-out; between iterations no fetch is     *)
(* outstanding.                                                            *)
(***************************************************************************)
C34_SingleFlight ==
    /\ Len(fetched) = Cardinality(FetchHandOuts)
    /\ \A i \in 1..(Len(handed) - 1) :
          /\ (handed[i + 1][3] - handed[i][3]) * cfg.crawl_rate_limit >= 60
          /\ i \in FetchHandOuts => handed[i + 1][3] >= handed[i][3] + FetchSeconds
    /\ Len(handed) > 0 /\ Len(handed) \in FetchHandOuts =>
          now >= handed[Len(handed)][3] + FetchSeconds
    /\ Len(saved) <= Len(fetched)

\* two pages fetched one after the other under a limit of 30 per minute: the
\* second was handed out two seconds after the first, one second after the
\* first fetch had finished
C34_Witness ==
    /\ pc = "returned" /\ cfg.crawl_rate_limit = 30
    /\ \E i \in 1..(Len(handed) - 1) :
          /\ i \in FetchHandOuts /\ (i + 1) \in FetchHandOuts
          /\ handed[i + 1][3] = handed[i][3] + 2
          /\ handed[i][1] \in SavedURLs

(***************************************************************************)
(* C38 as stated: at every point of a crawl_host run, and in every value   *)
(* written to the session row on completion or failure,                    *)
(* 0 <= pages_changed <= pages_crawled <= max_pages_per_host.              *)
(***************************************************************************)
C38_AsStated ==
    /\ 0 <= pages_changed /\ pages_changed <= pages_crawled
    /\ pages_crawled <= cfg.max_pages_per_host
    /\ \A i \in 1..Len(sessionLog) :
          /\ 0 <= sessionLog[i].pages_changed
          /\ sessionLog[i].pages_changed <= sessionLog[i].pages_crawled
          /\ sessionLog[i].pages_crawled <= cfg.max_pages_per_host

\* the page contents written to the content store in this crawl
ContentWrites == { i \in 1..Len(s3) : s3[i] # ManifestKey(Host) }

HashReasons == {"new_page", "content_changed", "content_hash_match"}

ManifestWrites == Cardinality({ i \in 1..Len(s3) : s3[i] = ManifestKey(Host) })

(***************************************************************************)
(* C29 as stated: the session is marked completed only when the frontier   *)
(* is empty or pages_crawled has reached the ceiling; the manifest is then *)
(* generated exactly once and stored at llm/{host}/llm.txt; a crawl that   *)
(* ends failed generates no manifest.                                      *)
(***************************************************************************)
C29_AsStated ==
    /\ pc \in {"manifest", "returned"} =>
          /\ SessionStatus = "completed"
          /\ size(frontier) = 0 \/ pages_crawled >= cfg.max_pages_per_host
    /\ pc = "returned" => ManifestWrites = 1
    /\ (pc = "raised" /\ sessionLog # <<>> /\ SessionStatus = "failed") =>
          ManifestWrites = 0

\* robots.txt could not be fetched, or no rule could be read from it
RobotsMissing == cfg.robots \in {"none", "error", "garbage"}

\* no sitemap was served, or the one served is not well-formed XML
SitemapMissing == cfg.sitemap \in {"none", "malformed"}

(***************************************************************************)
(* C22  Missing inputs are non-fatal: when robots.txt cannot be fetched or *)
(* parsed, can_fetch is true for every URL of the host, so every URL taken *)
(* from the frontier within the depth limit is fetched; when the sitemap   *)
(* is absent or malformed, the crawl starts from the two seed URLs only;   *)
(* in both cases crawl_host raises only when a storage or fetch call       *)
(* raised, and returns completed otherwise.                                *)
(***************************************************************************)
C22_MissingInputsNotFatal ==
    /\ (RobotsMissing /\ sessionLog # <<>>) =>
          /\ \A u \in frontier.seen \cup { SitemapLocs[i] : i \in 1..Len(SitemapLocs) } :
                can_fetch(robot_parsers, Host, u)
          /\ \A i \in 1..Len(handed) :
                handed[i][2] <= cfg.max_depth => handed[i][1] \in FetchedURLs
    /\ (SitemapMissing /\ pc = "loop" /\ handed = <<>>) =>
          frontier.queue = << <<URL(Host, <<>>), 0>>,
                              <<URL(Host, <<"/", "index.html">>), 0>> >>
    /\ ((RobotsMissing \/ SitemapMissing) /\ faults = 0) =>
          /\ pc # "raised" /\ pc # "handler"
          /\ pc = "returned" => SessionStatus = "completed"

\* robots.txt came back as text without a rule and the sitemap is malformed:
\* the crawl of the cyclic site fetched /p/x, found as a link, and returned
C22_Witness ==
    /\ pc = "returned" /\ faults = 0
    /\ cfg.robots = "garbage" /\ cfg.sitemap = "malformed" /\ cfg.site = "cyclic"
    /\ Host \in DOMAIN robot_parsers
    /\ PageX \in FetchedURLs
    /\ SessionStatus = "completed"

(***************************************************************************)
(* The frontier driven by arbitrary calls.                                 *)
(***************************************************************************)
RawURLs ==
    { URL("ex", <<"/", "a">>),
      URL("EX", <<"/", "A", "/">>),
      URL("ex", <<"/", "a", "#", "b">>),
      URL("ex", <<"/", "b">>),
      URL("ot", <<"/", "a">>) }

NormURLs == { normalize_url(u) : u \in RawURLs }

SeedLists == { <<>>, <<URL("ex", <<"/">>), URL("ex", <<"/", "a">>)>> }

AllNorm == NormURLs \cup { normalize_url(URL("ex", <<"/">>)) }

RateLimits == {1, 2}

TickSteps == {30}

FrontierInit ==
    /\ \E seeds \in SeedLists :
          /\ frontier = URLFrontier(EmptyFrontier, seeds)
          /\ trueAdds = [u \in AllNorm |->
                            IF u \in URLFrontier(EmptyFrontier, seeds).seen
                            THEN 1 ELSE 0]
    /\ now = 0
    /\ ret = [op |-> "init"]
    /\ handed = <<>>
    /\ d_in = <<>> /\ d_out = <<>>
    /\ NoCrawl /\ NoService /\ NoFetcher /\ NoPure /\ NoManifest /\ NoWriters /\ NoBatch /\ NoWebCrawler

FAdd ==
    \E url \in RawURLs, depth \in 0..MaxDepthArg :
        LET r == add(frontier, url, depth)
            n == normalize_url(url)
        IN  /\ trueAdds[n] < MaxTrueAdds
            /\ frontier' = r.f
            /\ ret' = [op |-> "add", url |-> n, val |-> r.ret,
                       size0 |-> size(frontier)]
            /\ trueAdds' = IF r.ret THEN [trueAdds EXCEPT ![n] = @ + 1]
                           ELSE trueAdds
            /\ UNCHANGED <<now, handed, dvars, cvars, svc, fcall, pure, mcall, writers, batch, wc>>

FGetNext ==
    \E rate_limit \in RateLimits :
        LET r == get_next(frontier, now, rate_limit) IN
            /\ Len(handed) < MaxHanded
            /\ frontier' = r.f
            /\ ret' = [op |-> "get_next", val |-> r.ret, rate |-> rate_limit,
                       size0 |-> size(frontier), q0 |-> frontier.queue,
                       at |-> now]
            /\ handed' = IF r.ret = None THEN handed
                         ELSE Append(handed, <<r.ret[1], r.ret[2], now>>)
            /\ UNCHANGED <<now, trueAdds, dvars, cvars, svc, fcall, pure, mcall, writers, batch, wc>>

FTick ==
    \E d \in TickSteps :
        /\ now + d <= MaxTime
        /\ now' = now + d
        /\ UNCHANGED <<frontier, ret, trueAdds, handed, dvars, cvars, svc, fcall, pure, mcall, writers, batch, wc>>

FrontierNext == FAdd \/ FGetNext \/ FTick

SpecFrontier == FrontierInit /\ [][FrontierNext]_vars

QueuedURLs == { frontier.queue[i][1] : i \in 1..Len(frontier.queue) }

HandedURLs == { handed[i][1] : i \in 1..Len(handed) }

(***************************************************************************)
(* C1  URLFrontier.add dedup: for each normalized URL at most one add call *)
(* ever returns True; an add returns False only for a URL an earlier add   *)
(* returned True for (so the first add returns True and every later one    *)
(* returns False, also after get_next handed the URL out); every add call  *)
(* changes size() by 0 or +1.                                              *)
(***************************************************************************)
C1_AddDedup ==
    /\ \A u \in AllNorm : trueAdds[u] <= 1
    /\ ret.op = "add" =>
          /\ (~ret.val => trueAdds[ret.url] = 1)
          /\ (ret.val => size(frontier) = ret.size0 + 1)
          /\ size(frontier) - ret.size0 \in {0, 1}

\* an add of a URL that get_next already handed out returned False
C1_Witness ==
    /\ ret.op = "add" /\ ~ret.val
    /\ ret.url \in HandedURLs
    /\ ret.url \notin QueuedURLs

(***************************************************************************)
(* C2  Seen-once invariant: every normalized URL occurs at most once in    *)
(* the queue, every queued URL is in the seen set, every URL ever added or *)
(* handed out stays in the seen set, a URL get_next returned is not in the *)
(* queue again, and no URL is handed out twice.                            *)
(***************************************************************************)
C2_SeenOnce ==
    /\ \A i, j \in 1..Len(frontier.queue) :
          frontier.queue[i][1] = frontier.queue[j][1] => i = j
    /\ QueuedURLs \subseteq frontier.seen
    /\ HandedURLs \subseteq frontier.seen
    /\ \A u \in AllNorm : trueAdds[u] >= 1 => u \in frontier.seen
    /\ HandedURLs \cap QueuedURLs = {}
    /\ \A i, j \in 1..Len(handed) : handed[i][1] = handed[j][1] => i = j

\* a throttled get_next re-queued two entries after one was handed out and re-added
C2_Witness ==
    /\ ret.op = "get_next" /\ ret.val = None
    /\ size(frontier) >= 2
    /\ \E u \in HandedURLs : trueAdds[u] = 1

(***************************************************************************)
(* C3  Per-host pacing: when get_next called with rate limit R returns an  *)
(* entry, every entry of the same host returned earlier was returned at    *)
(* least 60/R seconds before.                                              *)
(***************************************************************************)
C3_Pacing ==
    (ret.op = "get_next" /\ ret.val # None) =>
        \A i \in 1..(Len(handed) - 1) :
            netloc(handed[i][1]) = netloc(ret.val[1])
                => (ret.at - handed[i][3]) * ret.rate >= 60

\* R = 1: the second URL of a host is returned exactly 60 s after the first,
\* after a call at 30 s returned none
C3_Witness ==
    /\ ret.op = "get_next" /\ ret.val # None /\ ret.rate = 1
    /\ \E i \in 1..(Len(handed) - 1) :
          /\ netloc(handed[i][1]) = netloc(ret.val[1])
          /\ ret.at - handed[i][3] = 60

\* a call of get_next has just returned
GetNextStep == ret'.op = "get_next" /\ (ret' # ret \/ handed' # handed)

\* positions of the queue whose host was never accessed, or was last
\* accessed at least 60/rate_limit seconds before t
ReadyAt(f, t, rate_limit) ==
    { i \in 1..Len(f.queue) :
        LET host == netloc(f.queue[i][1]) IN
        \/ host \notin DOMAIN f.host_last_access
        \/ (t - f.host_last_access[host]) * rate_limit >= 60 }

(***************************************************************************)
(* C19  get_next makes at most one pass: a call returns none exactly when  *)
(* no queued entry's host is ready (never accessed, or last accessed at    *)
(* least 60/rate_limit seconds ago); otherwise it returns the first ready  *)
(* entry in queue order, whatever throttled entries of other hosts stand   *)
(* before it.  Every entry is examined at most once: the entries before    *)
(* the returned one were moved once to the back, those after it were not   *)
(* touched, and a call that returns none leaves the queue as it was.       *)
(***************************************************************************)
C19_OnePass ==
    [][ GetNextStep =>
          LET q == frontier.queue
              R == ReadyAt(frontier, now, ret'.rate)
          IN  /\ (ret'.val = None) <=> (R = {})
              /\ R = {} => frontier'.queue = q
              /\ R # {} =>
                   LET k == Min(R) IN
                   /\ ret'.val = q[k]
                   /\ frontier'.queue =
                        SubSeq(q, k + 1, Len(q)) \o SubSeq(q, 1, k - 1)
                   /\ \A i \in 1..(k - 1) : netloc(q[i][1]) # netloc(q[k][1])
    ]_vars

\* the head of the queue is a throttled URL of host ex and the call returns
\* a URL of host ot that stood behind it
C19_Witness ==
    /\ ret.op = "get_next" /\ ret.val # None
    /\ Len(ret.q0) >= 2
    /\ netloc(ret.q0[1][1]) = "ex"
    /\ netloc(ret.val[1]) = "ot"
    /\ "ex" \in DOMAIN frontier.host_last_access
    /\ (ret.at - frontier.host_last_access["ex"]) * ret.rate < 60
    /\ frontier.queue[Len(frontier.queue)] = ret.q0[1]

\* how often entry e occurs in queue q
Occurrences(q, e) == Cardinality({ i \in 1..Len(q) : q[i] = e })

(***************************************************************************)
(* C40  Frame of get_next: a call that returns none leaves the frontier    *)
(* exactly as it was (queue order, seen set, host_last_access); a call     *)
(* that returns an entry makes size() one smaller, removes only that entry *)
(* from the queue, leaves the seen set unchanged and gives a new           *)
(* last-access time, the time of the call, to the entry's host only.       *)
(***************************************************************************)
C40_Frame ==
    [][ GetNextStep =>
          IF ret'.val = None THEN frontier' = frontier
          ELSE LET host == netloc(ret'.val[1])
                   hla == frontier.host_last_access
               IN  /\ size(frontier') = size(frontier) - 1
                   /\ \A i \in 1..Len(frontier.queue) :
                         Occurrences(frontier'.queue, frontier.queue[i])
                             = Occurrences(frontier.queue, frontier.queue[i])
                                 - (IF frontier.queue[i] = ret'.val THEN 1 ELSE 0)
                   /\ frontier'.seen = frontier.seen
                   /\ DOMAIN frontier'.host_last_access = DOMAIN hla \cup {host}
                   /\ frontier'.host_last_access[host] = now
                   /\ \A h \in DOMAIN hla \ {host} :
                         frontier'.host_last_access[h] = hla[h]
    ]_vars

\* an entry was returned from behind a throttled one: the queue held three
\* entries, the throttled host keeps its earlier time, the returned entry's
\* host is stamped with the time of the call
C40_Witness ==
    /\ ret.op = "get_next" /\ ret.val # None
    /\ Len(ret.q0) = 3 /\ size(frontier) = 2
    /\ ret.q0[1] # ret.val
    /\ frontier.host_last_access[netloc(ret.val[1])] = ret.at
    /\ \E h \in DOMAIN frontier.host_last_access :
          /\ h # netloc(ret.val[1])
          /\ frontier.host_last_access[h] < ret.at
          /\ h = netloc(ret.q0[1][1])

(***************************************************************************)
(* has_changed applied to every combination of a small set of inputs.      *)
(***************************************************************************)
StrValues == { <<>>, <<Q, Q>>, <<"v1">>, <<Q, "v1", Q>>, <<"v2">> }

HeaderDicts == UNION { [S -> StrValues] : S \in SUBSET {"etag", "last-modified"} }

Bodies ==
    { << <<"text", "w1", NoHref>> >>,
      << <<"script", "x", NoHref>>, <<"text", "w1", NoHref>> >>,
      << <<"text", "w2", NoHref>> >> }

StoredHashes ==
    { compute_content_hash(<<"w1">>), compute_content_hash(<<"w3">>) }

\* get_page_info: None, or the row as a dict
PrevInfos ==
    {None} \cup
    { << [etag |-> e, last_modified |-> l, content_hash |-> c] >> :
        e \in StrValues \cup {Null}, l \in StrValues \cup {Null}, c \in StoredHashes }

DetectorInit ==
    /\ d_in \in [headers : HeaderDicts, content : Bodies, previous_info : PrevInfos,
                 pass : {1}, first : {<<>>}]
    /\ d_out = <<>>
    /\ frontier = EmptyFrontier
    /\ now = 0
    /\ ret = [op |-> "init"]
    /\ trueAdds = <<>>
    /\ handed = <<>>
    /\ NoCrawl /\ NoService /\ NoFetcher /\ NoPure /\ NoManifest /\ NoWriters /\ NoBatch /\ NoWebCrawler

DetectorApply ==
    /\ d_out = <<>>
    /\ d_out' = has_changed(d_in.headers, d_in.content, d_in.previous_info)
    /\ UNCHANGED <<d_in, frontier, now, fvars, cvars, svc, fcall, pure, mcall, writers, batch, wc>>

\* the page is crawled again: crawl_host built and saved its record from the
\* first response, get_page_info reads it back, has_changed compares
DetectorRecrawl ==
    /\ d_out # <<>> /\ d_in.pass = 1
    /\ \E h2 \in HeaderDicts, b2 \in Bodies :
        LET page == PageRecord(Root, Response(200, d_in.headers, d_in.content, Null))
            prev_info == get_page_info(save_page(NoRows, page).table, Root)
        IN  /\ d_in' = [headers |-> h2, content |-> b2, previous_info |-> prev_info,
                        pass |-> 2, first |-> d_in.content]
            /\ d_out' = has_changed(h2, b2, prev_info)
    /\ UNCHANGED <<frontier, now, fvars, cvars, svc, fcall, pure, mcall, writers, batch, wc>>

DetectorNext == DetectorApply \/ DetectorRecrawl

SpecDetector == DetectorInit /\ [][DetectorNext]_vars

\* a header or column that is present: not None and not the empty string
Present(v) == v # Null /\ v # <<>>

CurETag == Get(d_in.headers, "etag", Null)
CurLastModified == Get(d_in.headers, "last-modified", Null)
Prev == d_in.previous_info[1]
CurHash == compute_content_hash(normalize_html(d_in.content))

\* the four rules in order, rule 2 applying when etagApplies
DecisionOrder(etagApplies) ==
    d_out # <<>> =>
        IF d_in.previous_info = None THEN d_out = <<TRUE, "new_page">>
        ELSE IF etagApplies
        THEN d_out = (IF StripQuotes(CurETag) = StripQuotes(Prev.etag)
                      THEN <<FALSE, "etag_match">> ELSE <<TRUE, "etag_changed">>)
        ELSE IF /\ Present(CurLastModified) /\ Present(Prev.last_modified)
                /\ CurLastModified = Prev.last_modified
        THEN d_out = <<FALSE, "last_modified_match">>
        ELSE d_out = (IF CurHash = Prev.content_hash
                      THEN <<FALSE, "content_hash_match">>
                      ELSE <<TRUE, "content_changed">>)

\* rule 2 or rule 3 of has_changed gives the verdict
HeadersDecide ==
    \/ Truthy(StripQuotes(Get(d_in.headers, "etag", <<>>))) /\ Truthy(Prev.etag)
    \/ /\ Truthy(CurLastModified) /\ Truthy(Prev.last_modified)
       /\ CurLastModified = Prev.last_modified

(***************************************************************************)
(* C11  Markup-only changes are not changes: with a previous record and no *)
(* ETag or Last-Modified rule deciding first, a body whose normalized text *)
(* equals that of a differently marked-up body behind the stored hash      *)
(* gives (false, content_hash_match); in particular when the stored hash   *)
(* is the one crawl_host put in the PageRecord of the earlier body.        *)
(***************************************************************************)
C11_MarkupOnly ==
    (d_out # <<>> /\ d_in.previous_info # None /\ ~HeadersDecide) =>
        /\ (\E b \in Bodies :
                /\ b # d_in.content
                /\ normalize_html(b) = normalize_html(d_in.content)
                /\ Prev.content_hash = compute_content_hash(normalize_html(b)))
              => d_out = <<FALSE, "content_hash_match">>
        /\ (d_in.pass = 2 /\ normalize_html(d_in.first) = normalize_html(d_in.content))
              => d_out = <<FALSE, "content_hash_match">>

\* the second crawl saw other markup with the same text and reported no change
C11_Witness ==
    /\ d_in.pass = 2 /\ d_in.first # d_in.content
    /\ normalize_html(d_in.first) = normalize_html(d_in.content)
    /\ d_out = <<FALSE, "content_hash_match">>

(***************************************************************************)
(* C9 as stated: has_changed returns the verdict of the first applicable   *)
(* rule, the ETag rule applying whenever the current and the previous ETag *)
(* are both present.                                                       *)
(***************************************************************************)
C9_AsStated == DecisionOrder(Present(CurETag) /\ Present(Prev.etag))

(***************************************************************************)
(* C9  Change-detection decision order, amended: (1) no previous record -> *)
(* (true, new_page); (2) the current ETag is non-empty after stripping     *)
(* quotes and the previous ETag is present -> etag_match if equal after    *)
(* stripping quotes, else etag_changed; (3) both Last-Modified present and *)
(* equal -> last_modified_match; (4) otherwise the sha256 of the           *)
(* normalized content against the stored content_hash.  Differing          *)
(* Last-Modified values alone never produce a verdict.                     *)
(***************************************************************************)
C9_DecisionOrder ==
    DecisionOrder(/\ Present(CurETag) /\ StripQuotes(CurETag) # <<>>
                  /\ Present(Prev.etag))

\* rule 4 decided "unchanged" although both Last-Modified are present and differ
C9_Witness ==
    /\ d_out = <<FALSE, "content_hash_match">>
    /\ Present(CurLastModified) /\ Present(Prev.last_modified)
    /\ CurLastModified # Prev.last_modified
    /\ Present(CurETag) /\ ~Present(Prev.etag)

(***************************************************************************)
(* C10 as stated: whenever the current response and the previous record    *)
(* both carry an ETag and the two are equal after stripping quotes, the    *)
(* verdict is (false, etag_match).                                         *)
(***************************************************************************)
C10_AsStated ==
    (/\ d_out # <<>> /\ d_in.previous_info # None
     /\ Present(CurETag) /\ Present(Prev.etag)
     /\ StripQuotes(CurETag) = StripQuotes(Prev.etag))
        => d_out = <<FALSE, "etag_match">>

(***************************************************************************)
(* C10  ETag precedence, amended: whenever the current ETag is non-empty   *)
(* after stripping quotes, the previous record carries an ETag and the two *)
(* are equal after stripping quotes, the verdict is (false, etag_match)    *)
(* for every body and every Last-Modified value.                           *)
(***************************************************************************)
C10_ETagPrecedence ==
    (/\ d_out # <<>> /\ d_in.previous_info # None
     /\ Present(CurETag) /\ StripQuotes(CurETag) # <<>>
     /\ Present(Prev.etag)
     /\ StripQuotes(CurETag) = StripQuotes(Prev.etag))
        => d_out = <<FALSE, "etag_match">>

\* ETags equal only after stripping quotes, body hash and Last-Modified differ
C10_Witness ==
    /\ d_out = <<FALSE, "etag_match">>
    /\ CurETag # Prev.etag
    /\ CurHash # Prev.content_hash
    /\ Present(CurLastModified) /\ Present(Prev.last_modified)
    /\ CurLastModified # Prev.last_modified

(***************************************************************************)
(* CrawlerService (backend): a job row, the background task _run_crawl     *)
(* that drives WebCrawler.crawl, and cancel_crawl.  svc.job_log is every   *)
(* status written to the job row; svc.fetched the URLs passed to           *)
(* client.get; svc.callbacks the arguments of every progress_callback call.*)
(***************************************************************************)
MaxPagesJob == 2

\* what the host answers to client.get: status, HTML or not, same-host links
WebPage(status, html, links) == [status |-> status, html |-> html, links |-> links]

WebSite(site, url) ==
    CASE site = "linked" /\ url = Root -> WebPage(200, TRUE, <<PageA, PageB, Root>>)
      [] site = "linked" /\ url = PageA -> WebPage(200, TRUE, <<PageB>>)
      [] site = "plain" /\ url = Root -> WebPage(200, FALSE, <<>>)
      [] site = "mixed" /\ url = Root -> WebPage(200, TRUE, <<PageA, PageB, PageX>>)
      [] site = "mixed" /\ url = PageA -> WebPage(200, FALSE, <<>>)
      [] site = "mixed" /\ url = PageB -> WebPage(200, TRUE, <<Root>>)
      [] OTHER -> WebPage(404, TRUE, <<>>)

\* robots.txt of the job's host
JobRobots ==
    [none   |-> <<>>,
     closed |-> << <<FALSE, <<"/">> >> >>]

Jobs ==
    [site : {"linked", "plain", "missing"},
     robots : {"none", "closed"},
     max_pages : 1..MaxPagesJob]

\* WebCrawler._can_fetch
web_can_fetch(robots, url) == Allowance(JobRobots[robots], UrlPath(url))

\* links appended to the queue: not visited and not queued yet
RECURSIVE enqueue_links(_, _, _, _)
enqueue_links(queue, visited_urls, links, i) ==
    IF i > Len(links) THEN queue
    ELSE enqueue_links(
             IF links[i] \notin visited_urls
                /\ \A k \in 1..Len(queue) : queue[k] # links[i]
             THEN Append(queue, links[i]) ELSE queue,
             visited_urls, links, i + 1)

\* a job created by the API: status pending, _run_crawl queued as background task
ServiceInit ==
    /\ \E j \in Jobs :
        svc = [job |-> j,
               run |-> "queued",
               job_log |-> <<"pending">>,
               active_crawls |-> {},
               queue |-> <<>>,
               visited_urls |-> {},
               pages_crawled |-> 0,
               pages_failed |-> 0,
               fetched |-> <<>>,
               callbacks |-> <<>>,
               cancel |-> "idle",
               at_cancel |-> <<>>]
    /\ frontier = EmptyFrontier
    /\ now = 0
    /\ ret = [op |-> "init"]
    /\ trueAdds = <<>>
    /\ handed = <<>>
    /\ d_in = <<>> /\ d_out = <<>>
    /\ NoCrawl /\ NoFetcher /\ NoPure /\ NoManifest /\ NoWriters /\ NoBatch /\ NoWebCrawler

ServiceUnchanged == UNCHANGED <<frontier, now, fvars, dvars, cvars, fcall, pure, mcall, writers, batch, wc>>

\* _run_crawl, lines 61-71 and crawl lines 55-68: status running, queue = [start_url]
RunCrawlStart ==
    /\ svc.run = "queued"
    /\ svc' = [svc EXCEPT !.run = "crawl",
                          !.job_log = Append(@, "running"),
                          !.queue = <<Root>>]
    /\ ServiceUnchanged

\* the body of progress_callback: update_job_progress is called without its
\* required pages_failed and bytes_downloaded, which raises TypeError
progress_callback(run) == "except"

\* one iteration of WebCrawler.crawl's loop, lines 71-151
CrawlIterate ==
    /\ svc.run = "crawl"
    /\ svc.queue # <<>> /\ svc.pages_crawled < svc.job.max_pages
    /\ \E url \in {Head(svc.queue)}, queue \in {Tail(svc.queue)} :
       \E page \in {WebSite(svc.job.site, url)} :
        svc' =
          IF url \in svc.visited_urls
          THEN [svc EXCEPT !.queue = queue]
          ELSE IF ~web_can_fetch(svc.job.robots, url)
          THEN [svc EXCEPT !.queue = queue, !.visited_urls = @ \cup {url}]
          ELSE IF page.status = 200 /\ ~page.html
          THEN \* not HTML: continue, the callback is not reached
               [svc EXCEPT !.queue = queue, !.visited_urls = @ \cup {url},
                           !.fetched = Append(@, url),
                           !.pages_crawled = @ + 1]
          ELSE [svc EXCEPT
                   !.queue = IF page.status = 200
                                /\ svc.pages_crawled + 1 < svc.job.max_pages
                             THEN enqueue_links(queue, svc.visited_urls \cup {url},
                                                page.links, 1)
                             ELSE queue,
                   !.visited_urls = @ \cup {url},
                   !.fetched = Append(@, url),
                   !.pages_crawled = @ + 1,
                   !.pages_failed = IF page.status = 200 THEN @ ELSE @ + 1,
                   !.callbacks = Append(@,
                       [current_url |-> url,
                        pages_crawled |-> svc.pages_crawled + 1,
                        pages_failed |-> IF page.status = 200 THEN svc.pages_failed
                                         ELSE svc.pages_failed + 1]),
                   !.run = progress_callback(@)]
    /\ ServiceUnchanged

\* lines 86-100: the loop is over, manifest stored, status completed
RunCrawlComplete ==
    /\ svc.run = "crawl"
    /\ ~(svc.queue # <<>> /\ svc.pages_crawled < svc.job.max_pages)
    /\ \/ svc' = [svc EXCEPT !.run = "done", !.job_log = Append(@, "completed")]
       \/ \* put_manifest raises
          svc' = [svc EXCEPT !.run = "except"]
    /\ ServiceUnchanged

\* lines 109-123: status failed
RunCrawlExcept ==
    /\ svc.run = "except"
    /\ svc' = [svc EXCEPT !.run = "done", !.job_log = Append(@, "failed")]
    /\ ServiceUnchanged

\* cancel_crawl, lines 128-130: read the job, refuse unless pending or running
CancelCheck ==
    /\ svc.cancel = "idle"
    /\ svc' = [svc EXCEPT !.cancel =
                  IF svc.job_log[Len(svc.job_log)] \in {"pending", "running"}
                  THEN "checked" ELSE "refused"]
    /\ ServiceUnchanged

\* cancel_crawl, lines 133-142: status cancelled; the task is cancelled only
\* if active_crawls holds it
CancelWrite ==
    /\ svc.cancel = "checked"
    /\ svc' = [svc EXCEPT
                  !.cancel = "done",
                  !.job_log = Append(@, "cancelled"),
                  !.run = IF "job" \in svc.active_crawls THEN "done" ELSE @,
                  !.at_cancel = << [log |-> Len(svc.job_log) + 1,
                                    fetched |-> Len(svc.fetched),
                                    pages_crawled |-> svc.pages_crawled] >>]
    /\ ServiceUnchanged

ServiceNext ==
    \/ RunCrawlStart
    \/ CrawlIterate
    \/ RunCrawlComplete
    \/ RunCrawlExcept
    \/ CancelCheck
    \/ CancelWrite

SpecService == ServiceInit /\ [][ServiceNext]_vars

JobStatus == svc.job_log[Len(svc.job_log)]

(***************************************************************************)
(* C15 as stated: once cancel_crawl has accepted the abort request, the    *)
(* crawl performs no further fetch, the counters stay frozen, no later     *)
(* write sets the job to running or completed, and when the task has ended *)
(* the job is cancelled or failed.                                         *)
(***************************************************************************)
C15_AsStated ==
    svc.cancel = "done" =>
        /\ Len(svc.fetched) = svc.at_cancel[1].fetched
        /\ svc.pages_crawled = svc.at_cancel[1].pages_crawled
        /\ \A i \in (svc.at_cancel[1].log + 1)..Len(svc.job_log) :
              svc.job_log[i] \notin {"running", "completed"}
        /\ svc.run = "done" => JobStatus \in {"cancelled", "failed"}

(***************************************************************************)
(* PageFetcher.fetch under its tenacity decorator.  fcall.attempts says    *)
(* what each attempt would meet: a page that loads, a 503 or 403 answer, a *)
(* goto that times out or cannot connect, or a browser context that        *)
(* cannot be created.                                                      *)
(***************************************************************************)
stop_after_attempt == 3

AttemptKinds ==
    {"loads", "status_503", "status_403", "timeout", "connection_error",
     "context_raises"}

StatusOf(kind) ==
    CASE kind = "loads" -> 200
      [] kind = "status_503" -> 503
      [] kind = "status_403" -> 403
      [] OTHER -> 0

\* lines 128-183: one execution of the body of fetch; raised: the exception
\* left the body, so the decorator sees it
fetch_body(kind, proxy_url) ==
    IF kind = "context_raises"
    THEN [raised |-> TRUE, status |-> 0, error |-> <<"context error">>]
    ELSE IF kind \in {"timeout", "connection_error"}
    THEN \* page.goto raised: caught at line 172, status 0 becomes 500
         [raised |-> FALSE, status |-> 500, error |-> <<kind>>]
    ELSE IF StatusOf(kind) \in {403, 503} /\ proxy_url
    THEN \* the "Blocked, retrying" exception is raised inside the same try
         [raised |-> FALSE, status |-> StatusOf(kind), error |-> <<"Blocked">>]
    ELSE [raised |-> FALSE, status |-> StatusOf(kind), error |-> Null]

RECURSIVE retry(_, _, _)
\* @retry(stop=stop_after_attempt(3)): run the body again while it raises
retry(attempts, proxy_url, i) ==
    IF fetch_body(attempts[i], proxy_url).raised /\ i < stop_after_attempt
    THEN retry(attempts, proxy_url, i + 1)
    ELSE [attempts |-> i, outcome |-> fetch_body(attempts[i], proxy_url)]

fetch(attempts, proxy_url) == retry(attempts, proxy_url, 1)

FetcherInit ==
    /\ fcall \in [attempts : [1..stop_after_attempt -> AttemptKinds],
                  proxy_url : BOOLEAN, out : {<<>>}]
    /\ frontier = EmptyFrontier
    /\ now = 0
    /\ ret = [op |-> "init"]
    /\ trueAdds = <<>>
    /\ handed = <<>>
    /\ d_in = <<>> /\ d_out = <<>>
    /\ NoCrawl /\ NoService /\ NoPure /\ NoManifest /\ NoWriters /\ NoBatch /\ NoWebCrawler

FetcherApply ==
    /\ fcall.out = <<>>
    /\ fcall' = [fcall EXCEPT !.out = <<fetch(fcall.attempts, fcall.proxy_url)>>]
    /\ UNCHANGED <<frontier, now, fvars, dvars, cvars, svc, pure, mcall, writers, batch, wc>>

FetcherNext == FetcherApply

SpecFetcher == FetcherInit /\ [][FetcherNext]_vars

\* the failures the specification calls transient
Transient == {"timeout", "connection_error", "status_503"}

(***************************************************************************)
(* C16 as stated: a fetch whose first attempt fails transiently (timeout,  *)
(* connection error, 5xx answer) is attempted again before anything        *)
(* reaches the orchestrator, and at most 3 attempts are made.              *)
(***************************************************************************)
C16_AsStated ==
    fcall.out # <<>> =>
        /\ fcall.out[1].attempts <= 3
        /\ fcall.attempts[1] \in Transient => fcall.out[1].attempts >= 2


(***************************************************************************)
(* URLFrontier._normalize_url applied to its own result.  The inputs are   *)
(* every URL whose host is written in lower or upper case and whose rest   *)
(* is a string of at most MaxURLLen symbols over '/', '#', an upper-case   *)
(* and a lower-case letter.                                                *)
(***************************************************************************)
MaxURLLen == 4

URLSymbols == {"/", "#", "A", "a"}

URLTails == UNION { [1..n -> URLSymbols] : n \in 0..MaxURLLen }

URLStrings == { URL(h, t) : h \in {"ex", "EX"}, t \in URLTails }

NormalizeInit ==
    /\ pure \in [fn : {"_normalize_url"}, trace : { <<u>> : u \in URLStrings }]
    /\ frontier = EmptyFrontier
    /\ now = 0
    /\ ret = [op |-> "init"]
    /\ trueAdds = <<>>
    /\ handed = <<>>
    /\ d_in = <<>> /\ d_out = <<>>
    /\ NoCrawl /\ NoService /\ NoFetcher /\ NoManifest /\ NoWriters /\ NoBatch /\ NoWebCrawler

NormalizeApply ==
    /\ Len(pure.trace) < 3
    /\ pure' = [pure EXCEPT
                  !.trace = Append(@, normalize_url(pure.trace[Len(pure.trace)]))]
    /\ UNCHANGED <<frontier, now, fvars, dvars, cvars, svc, fcall, mcall, writers, batch, wc>>

NormalizeNext == NormalizeApply

SpecNormalize == NormalizeInit /\ [][NormalizeNext]_vars

(***************************************************************************)
(* C20  URL normalization is idempotent: for every URL u, normalizing the  *)
(* normalized URL gives the normalized URL again,                          *)
(* _normalize_url(_normalize_url(u)) = _normalize_url(u).                  *)
(***************************************************************************)
C20_Idempotent ==
    Len(pure.trace) = 3 => pure.trace[3] = pure.trace[2]

\* a URL with an upper-case letter, a trailing slash and a fragment, which
\* the first normalization changes, has been normalized twice
C20_Witness ==
    /\ Len(pure.trace) = 3
    /\ pure.trace[1] = URL("EX", <<"/", "A", "/", "#">>)
    /\ pure.trace[2] = URL("ex", <<"/", "a">>)
    /\ pure.trace[2] # pure.trace[1]


(***************************************************************************)
(* URLFrontier.add called twice on a new frontier, with two URLs written   *)
(* from the same base: each is the base in some letter case, followed by   *)
(* at most MaxSlashes '/' characters and possibly by a '#fragment'.        *)
(***************************************************************************)
MaxSlashes == 2

\* strings without '#' that do not end in '/'
BaseTails == { <<>>, <<"/", "a">>, <<"/", "a", "/", "a">> }

Upper(t) == CASE t = "a" -> "A"
              [] t = "ex" -> "EX"
              [] OTHER -> t

\* the spellings of t that differ from it by letter case only
CaseVariants(t) ==
    { v \in [1..Len(t) -> {"/", "a", "A"}] :
        \A i \in 1..Len(t) : v[i] \in {t[i], Upper(t[i])} }

Slashes(n) == [i \in 1..n |-> "/"]

Fragments == { <<>>, <<"#">>, <<"#", "/">>, <<"#", "a">>, <<"#", "#">> }

Spellings(t) ==
    { URL(h, c \o Slashes(n) \o frag) :
        h \in {"ex", "EX"}, c \in CaseVariants(t),
        n \in 0..MaxSlashes, frag \in Fragments }

EquivInit ==
    /\ \E t \in BaseTails :
         pure \in [fn : {"add"}, first : Spellings(t), second : Spellings(t),
                   f : {EmptyFrontier}, rets : {<<>>}]
    /\ frontier = EmptyFrontier
    /\ now = 0
    /\ ret = [op |-> "init"]
    /\ trueAdds = <<>>
    /\ handed = <<>>
    /\ d_in = <<>> /\ d_out = <<>>
    /\ NoCrawl /\ NoService /\ NoFetcher /\ NoManifest /\ NoWriters /\ NoBatch /\ NoWebCrawler

EquivAdd ==
    /\ Len(pure.rets) < 2
    /\ \E url \in {IF pure.rets = <<>> THEN pure.first ELSE pure.second} :
       \E r \in {add(pure.f, url, 0)} :
          pure' = [pure EXCEPT !.f = r.f, !.rets = Append(@, r.ret)]
    /\ UNCHANGED <<frontier, now, fvars, dvars, cvars, svc, fcall, mcall, writers, batch, wc>>

EquivNext == EquivAdd

SpecEquiv == EquivInit /\ [][EquivNext]_vars

(***************************************************************************)
(* C21  Normalization equivalence: two URLs that differ only by a          *)
(* '#fragment' suffix, trailing '/' characters and letter case are one     *)
(* frontier entry: after both were added to a new frontier, the first add  *)
(* returned true, the second returned false, the queue holds one entry and *)
(* the set of seen URLs one string.  In particular 'https://EX.com/a/' and *)
(* 'https://ex.com/a' are one entry.                                       *)
(***************************************************************************)
C21_OneEntry ==
    Len(pure.rets) = 2 =>
        /\ pure.rets = <<TRUE, FALSE>>
        /\ Len(pure.f.queue) = 1
        /\ Cardinality(pure.f.seen) = 1

\* 'https://EX.com/a/' was added, then 'https://ex.com/a'
C21_Witness ==
    /\ Len(pure.rets) = 2
    /\ pure.first = URL("EX", <<"/", "a", "/">>)
    /\ pure.second = URL("ex", <<"/", "a">>)
    /\ pure.first # pure.second
    /\ pure.rets[2] = FALSE


(***************************************************************************)
(* LLMManifest.generate_manifest.  A manifest text is the sequence of its  *)
(* lines (joined by "\n"): <<"#", text>> is a comment line, <<key, value>> *)
(* a field line "key: value", <<>> an empty line.  mcall holds the host,   *)
(* the rows get_host_pages returns, what the content store holds for       *)
(* robots.txt and for the license page, and the text of every call.        *)
(***************************************************************************)
MaxPageList == 2

MaxClock == 2

VERSION == "1.0"

LicensePage == URL(Host, <<"/", "license">>)

\* rows of the host: url, is_blocked, crawled_at
PageDicts ==
    [url : {Root, PageA, LicensePage}, is_blocked : BOOLEAN, crawled_at : 0..1]

\* get_host_pages: one row per URL, ORDER BY crawled_at DESC
HostPageLists ==
    { l \in UNION { [1..n -> PageDicts] : n \in 0..MaxPageList } :
        /\ \A i, j \in 1..Len(l) : i < j => l[i].url # l[j].url
        /\ \A i, j \in 1..Len(l) : i < j => l[i].crawled_at >= l[j].crawled_at }

\* what the content store returns for the license page
LicenseContents == { <<>>, <<"mit license">>, <<"plain text">> }

\* hashlib.sha256(content.encode('utf-8')).hexdigest()
sha256(content) == <<"sha256", content>>

ManifestField(key, value, description) ==
    [key |-> key, value |-> value, description |-> description]

\* _detect_license: the first page with a license path whose stored content
\* names a known license
detect_license(host_pages, license_content) ==
    IF /\ \E i \in 1..Len(host_pages) : host_pages[i].url = LicensePage
       /\ license_content = <<"mit license">>
    THEN <<"MIT">> ELSE None

\* _get_content_types: the rows of get_host_pages carry no content_type
get_content_types(host_pages) == <<>>

\* datetime.isoformat() + "Z"
isoformat(t) == <<ToString(t), "Z">>

\* lines 39-133
manifest_fields(host, host_pages, robots_content, license_content, t) ==
    LET total_pages == Len(host_pages)
        accessible_pages == Len(SelectSeq(host_pages, LAMBDA p : ~p.is_blocked))
        license_info == detect_license(host_pages, license_content)
        content_types == get_content_types(host_pages)
    IN  << ManifestField("Version", VERSION, "LLM.txt specification version"),
           ManifestField("Site", <<"https://", host>>, "Base URL of the website"),
           ManifestField("Generated", isoformat(t), "Manifest generation timestamp"),
           ManifestField("Pages", ToString(total_pages), "Total number of pages crawled"),
           ManifestField("Accessible-Pages", ToString(accessible_pages),
                         "Number of accessible pages") >>
        \o (IF robots_content
            THEN << ManifestField("Site-Policy", "robots.txt", "Site crawling policy") >>
            ELSE <<>>)
        \o (IF license_info # None
            THEN << ManifestField("License", license_info[1], "Detected content license") >>
            ELSE <<>>)
        \o (IF content_types # <<>>
            THEN << ManifestField("Content-Types", content_types, "Available content types") >>
            ELSE <<>>)
        \o (IF host_pages # <<>>
            THEN << ManifestField("Last-Crawled",
                        isoformat(Max({ host_pages[i].crawled_at : i \in 1..Len(host_pages) })),
                        "Most recent crawl timestamp") >>
            ELSE <<>>)
        \o << ManifestField("Crawl-Frequency", "daily", "How often the site is crawled"),
              ManifestField("Pages-List", <<"https://cdn.example.com/llm/", host, "/pages.json">>,
                            "URL to detailed page listing"),
              ManifestField("API-Endpoint", <<"https://api.example.com/tools/llm.fetch_page?host=", host>>,
                            "MCP API endpoint for page fetching") >>

\* lines 144-148: comment, field and empty line of the k-th line triple
field_lines(fields) ==
    [k \in 1..(3 * Len(fields)) |->
        LET field == fields[(k + 2) \div 3] IN
        CASE k % 3 = 1 -> <<"#", field.description>>
          [] k % 3 = 2 -> <<field.key, field.value>>
          [] OTHER     -> <<>>]

\* list.insert(-1, x): x goes before the last element
insert_before_last(lines, x) ==
    SubSeq(lines, 1, Len(lines) - 1) \o <<x>> \o <<lines[Len(lines)]>>

\* lines 135-159
generate_manifest(host, host_pages, robots_content, license_content, t) ==
    LET manifest_lines ==
            << <<"#", "LLM.txt Manifest">>, <<"#", "Generated for", host>>, <<>> >>
            \o field_lines(manifest_fields(host, host_pages, robots_content,
                                           license_content, t))
        content_hash == sha256(manifest_lines)
    IN  insert_before_last(
            insert_before_last(manifest_lines, <<"Hash", content_hash>>), <<>>)

ManifestInit ==
    /\ mcall \in [host : {Host}, pages : HostPageLists, robots_content : BOOLEAN,
                  license_content : LicenseContents, out : {<<>>}]
    /\ frontier = EmptyFrontier
    /\ now = 0
    /\ ret = [op |-> "init"]
    /\ trueAdds = <<>>
    /\ handed = <<>>
    /\ d_in = <<>> /\ d_out = <<>>
    /\ NoCrawl /\ NoService /\ NoFetcher /\ NoPure /\ NoWriters /\ NoBatch /\ NoWebCrawler

\* the clock between two calls
ManifestTick ==
    /\ now < MaxClock
    /\ now' = now + 1
    /\ UNCHANGED <<frontier, fvars, dvars, cvars, svc, fcall, pure, mcall, writers, batch, wc>>

ManifestGenerate ==
    /\ Len(mcall.out) < 2
    /\ mcall' = [mcall EXCEPT !.out =
                    Append(@, generate_manifest(mcall.host, mcall.pages,
                                                mcall.robots_content,
                                                mcall.license_content, now))]
    /\ UNCHANGED <<frontier, now, fvars, dvars, cvars, svc, fcall, pure, writers, batch, wc>>

ManifestNext == ManifestTick \/ ManifestGenerate

SpecManifest == ManifestInit /\ [][ManifestNext]_vars

IsFieldLine(line) == Len(line) = 2 /\ line[1] # "#"

\* the keys of the field lines of a text
FieldKeys(text) == { text[i][1] : i \in { j \in 1..Len(text) : IsFieldLine(text[j]) } }

\* the value of the field key, which the text holds
FieldValue(text, key) ==
    text[CHOOSE i \in 1..Len(text) : IsFieldLine(text[i]) /\ text[i][1] = key][2]

IsHashLine(line) == IsFieldLine(line) /\ line[1] = "Hash"

WithoutHashLine(text) == SelectSeq(text, LAMBDA line : ~IsHashLine(line))

(***************************************************************************)
(* C23 as stated: the text returned by generate_manifest contains a        *)
(* 'Hash:' line whose value equals sha256 of the text with that line       *)
(* removed.                                                                *)
(***************************************************************************)
C23_AsStated ==
    \A i \in 1..Len(mcall.out) :
        /\ "Hash" \in FieldKeys(mcall.out[i])
        /\ FieldValue(mcall.out[i], "Hash") = sha256(WithoutHashLine(mcall.out[i]))

(***************************************************************************)
(* C24 as stated: for every list of page records, of any length, the       *)
(* manifest contains the fields Version, Site, Generated, Pages,           *)
(* Accessible-Pages, Last-Crawled and Hash.                                *)
(***************************************************************************)
C24_AsStated ==
    \A i \in 1..Len(mcall.out) :
        {"Version", "Site", "Generated", "Pages", "Accessible-Pages",
         "Last-Crawled", "Hash"} \subseteq FieldKeys(mcall.out[i])

(***************************************************************************)
(* C25 as stated: two invocations of generate_manifest with the same host  *)
(* and the same page records return identical text, whenever they are run. *)
(***************************************************************************)
C25_AsStated ==
    Len(mcall.out) = 2 => mcall.out[1] = mcall.out[2]

(***************************************************************************)
(* C26 as stated: the manifest reports the total, accessible and blocked   *)
(* page counts: total = number of page records, accessible = number of     *)
(* those with is_blocked false, blocked = total - accessible.              *)
(***************************************************************************)
C26_AsStated ==
    \A i \in 1..Len(mcall.out) :
        LET text == mcall.out[i]
            total == Len(mcall.pages)
            accessible == Cardinality({ j \in 1..Len(mcall.pages) :
                                          ~mcall.pages[j].is_blocked })
        IN  /\ FieldValue(text, "Pages") = ToString(total)
            /\ FieldValue(text, "Accessible-Pages") = ToString(accessible)
            /\ accessible <= total
            /\ \E key \in FieldKeys(text) \ {"Pages", "Accessible-Pages"} :
                  FieldValue(text, key) = ToString(total - accessible)


(***************************************************************************)
(* C27 as stated: the progress callback is invoked once after every URL    *)
(* the crawl processes (fetched successfully, fetched with error, or       *)
(* skipped), with the counters as of that URL.                             *)
(***************************************************************************)
C27_AsStated ==
    \A url \in svc.visited_urls :
        /\ Cardinality({ i \in 1..Len(svc.callbacks) :
                           svc.callbacks[i].current_url = url }) = 1
        /\ \A i \in 1..Len(svc.callbacks) :
              svc.callbacks[i].current_url = url =>
                  svc.callbacks[i].pages_crawled <= svc.pages_crawled


(***************************************************************************)
(* StorageAdapter.save_page called by crawls that run concurrently (cli    *)
(* batch gathers one crawl_host per host argument).  Each call runs its    *)
(* SELECT and then its UPDATE or INSERT as two statements on a pooled      *)
(* connection, outside a transaction; a statement is atomic.  The column   *)
(* url is UNIQUE: an INSERT of a url the table holds raises.               *)
(***************************************************************************)
MaxWriters == 2

SavedPages ==
    { [url |-> u, row |-> Row(compute_content_hash(<<w>>), Null, Null, 200)] :
        u \in {Root, PageA}, w \in {"w1", "w2"} }

SavePageInit ==
    /\ pages \in {NoRows, [u \in {Root} |-> Row(compute_content_hash(<<"w1">>), Null, Null, 200)]}
    /\ writers \in [1..MaxWriters ->
                      [pc : {"select"}, page : SavedPages, existing : {None},
                       ret : {None}]]
    /\ pc = "none" /\ cfg = <<>> /\ robot_parsers = <<>>
    /\ sessionLog = <<>> /\ pages_crawled = 0 /\ pages_changed = 0
    /\ faults = 0 /\ fetched = <<>> /\ saved = <<>> /\ s3 = <<>>
    /\ result = <<>>
    /\ frontier = EmptyFrontier
    /\ now = 0
    /\ ret = [op |-> "init"]
    /\ trueAdds = <<>>
    /\ handed = <<>>
    /\ d_in = <<>> /\ d_out = <<>>
    /\ NoService /\ NoFetcher /\ NoPure /\ NoManifest /\ NoBatch /\ NoWebCrawler

SavePageUnchanged ==
    UNCHANGED <<frontier, now, fvars, dvars, pc, cfg, robot_parsers, sessionLog,
                pages_crawled, pages_changed, faults, fetched, saved, s3, result,
                svc, fcall, pure, mcall, batch, wc>>

\* lines 170-174: SELECT id, content_hash FROM pages WHERE url = $1
SavePageSelect(w) ==
    /\ writers[w].pc = "select"
    /\ writers' = [writers EXCEPT
                     ![w].pc = "write",
                     ![w].existing =
                         IF writers[w].page.url \in DOMAIN pages
                         THEN << pages[writers[w].page.url].content_hash >>
                         ELSE None]
    /\ UNCHANGED pages
    /\ SavePageUnchanged

\* lines 176-198: UPDATE ... WHERE url = $10, return changed
SavePageUpdate(w) ==
    /\ writers[w].pc = "write" /\ writers[w].existing # None
    /\ pages' = Put(pages, writers[w].page.url, writers[w].page.row)
    /\ writers' = [writers EXCEPT
                     ![w].pc = "returned",
                     ![w].ret = << writers[w].existing[1]
                                     # writers[w].page.row.content_hash >>]
    /\ SavePageUnchanged

\* lines 199-222: INSERT INTO pages, return True; url is UNIQUE
SavePageInsert(w) ==
    /\ writers[w].pc = "write" /\ writers[w].existing = None
    /\ IF writers[w].page.url \in DOMAIN pages
       THEN /\ writers' = [writers EXCEPT ![w].pc = "raised"]
            /\ UNCHANGED pages
       ELSE /\ pages' = Put(pages, writers[w].page.url, writers[w].page.row)
            /\ writers' = [writers EXCEPT ![w].pc = "returned", ![w].ret = <<TRUE>>]
    /\ SavePageUnchanged

SavePageNext ==
    \E w \in 1..MaxWriters :
        \/ SavePageSelect(w)
        \/ SavePageUpdate(w)
        \/ SavePageInsert(w)

SpecSavePage == SavePageInit /\ [][SavePageNext]_vars

(***************************************************************************)
(* C28 as stated: under every interleaving of save_page calls issued by    *)
(* concurrently running crawls, including two calls for the same URL, each *)
(* call succeeds and the pages table holds exactly one record per URL      *)
(* saved.                                                                  *)
(***************************************************************************)
C28_AsStated ==
    \A w \in 1..MaxWriters :
        /\ writers[w].pc # "raised"
        /\ writers[w].pc = "returned" => writers[w].page.url \in DOMAIN pages

(***************************************************************************)
(* cli.py: the batch command.  One task per listed host, all created by    *)
(* asyncio.gather; a task holds the semaphore from before Crawler() until  *)
(* after close().                                                          *)
(***************************************************************************)
MaxBatchHosts == 2

\* --concurrent
ConcurrentSettings == {0, 1, 2}

BatchHosts == {Host, "ot"}

HostLists == UNION { [1..n -> BatchHosts] : n \in 1..MaxBatchHosts }

\* Crawler.__init__: self.robot_parsers = {}
Crawler == [robot_parsers |-> [h \in {} |-> <<>>]]

\* the dictionary crawl_host returns
CrawlResult(host) ==
    [host |-> host, pages_crawled |-> 0, pages_changed |-> 0,
     session_id |-> 1, status |-> "completed"]

Returned(value) == << [kind |-> "result", value |-> value] >>

Raised == << [kind |-> "exception", value |-> <<>>] >>

\* Semaphore.locked
locked(value) == value = 0

acquire_NoCount(value) == value

\* async with semaphore, on entry
acquire(value) == value - 1

\* async with semaphore, on exit
release(value) == value + 1

\* f(host=host, **kwargs) raises TypeError when kwargs has the key as well
KeywordClash(keywords, kwargs) == keywords \cap DOMAIN kwargs # {}

BatchTasks == DOMAIN batch.task

BatchInit ==
    /\ batch \in
         { [hosts |-> hs, concurrent |-> c, semaphore |-> c,
            task |-> [i \in 1..Len(hs) |->
                        [pc |-> "waiting", crawler |-> 0, frontier |-> 0,
                         taken |-> 0, ret |-> <<>>]],
            crawlers |-> <<>>, frontiers |-> <<>>,
            pc |-> "gather", i |-> 0, log |-> <<>>] :
           hs \in HostLists, c \in ConcurrentSettings }
    /\ frontier = EmptyFrontier
    /\ now = 0
    /\ ret = [op |-> "init"]
    /\ trueAdds = <<>>
    /\ handed = <<>>
    /\ d_in = <<>> /\ d_out = <<>>
    /\ NoCrawl /\ NoService /\ NoFetcher /\ NoPure /\ NoManifest /\ NoWriters
    /\ NoWebCrawler

BatchUnchanged ==
    UNCHANGED <<frontier, now, fvars, dvars, cvars, svc, fcall, pure, mcall,
                writers, wc>>

\* lines 77-78: the semaphore is entered in the order the tasks were created,
\* then Crawler(settings)
BatchAcquire(i) ==
    /\ batch.pc = "gather" /\ batch.task[i].pc = "waiting"
    /\ ~locked(batch.semaphore)
    /\ \A j \in BatchTasks : j < i => batch.task[j].pc # "waiting"
    /\ batch' = [batch EXCEPT
                   !.semaphore = acquire(@),
                   !.crawlers = Append(@, Crawler),
                   !.task[i].crawler = Len(batch.crawlers) + 1,
                   !.task[i].pc = "initialize"]
    /\ BatchUnchanged

\* line 79: await crawler.initialize(), outside the try
BatchInitialize(i) ==
    /\ batch.task[i].pc = "initialize"
    /\ \/ batch' = [batch EXCEPT !.task[i].pc = "crawl_host"]
       \/ batch' = [batch EXCEPT !.task[i].pc = "done",
                                 !.task[i].ret = Raised,
                                 !.semaphore = release(@)]
    /\ BatchUnchanged

\* line 81, crawler.py 135-149: the session row, a new frontier, robots.txt
BatchCrawlStart(i) ==
    /\ batch.task[i].pc = "crawl_host"
    /\ \/ batch' = [batch EXCEPT
                      !.frontiers = Append(@, URLFrontier(EmptyFrontier,
                                                seed_urls(batch.hosts[i]))),
                      !.crawlers[batch.task[i].crawler].robot_parsers =
                          load_robots_txt(@, batch.hosts[i],
                                          fetch_robots_txt("private")),
                      !.task[i].frontier = Len(batch.frontiers) + 1,
                      !.task[i].pc = "loop"]
       \/ batch' = [batch EXCEPT !.task[i].pc = "close", !.task[i].ret = Raised]
    /\ BatchUnchanged

\* crawler.py 157: frontier.get_next hands out a URL
BatchGetNext(i) ==
    /\ batch.task[i].pc = "loop"
    /\ \E r \in {get_next(batch.frontiers[batch.task[i].frontier], now,
                          Max(CrawlRateLimits))} :
          /\ r.ret # None
          /\ batch' = [batch EXCEPT !.frontiers[batch.task[i].frontier] = r.f,
                                    !.task[i].taken = @ + 1]
    /\ BatchUnchanged

\* lines 81-83: crawl_host returns its dictionary or raises
BatchCrawlEnd(i) ==
    /\ batch.task[i].pc = "loop"
    /\ \/ batch' = [batch EXCEPT !.task[i].pc = "close",
                                 !.task[i].ret = Returned(CrawlResult(batch.hosts[i]))]
       \/ batch' = [batch EXCEPT !.task[i].pc = "close", !.task[i].ret = Raised]
    /\ BatchUnchanged

\* line 84: finally await crawler.close(), then the semaphore is left
BatchClose(i) ==
    /\ batch.task[i].pc = "close"
    /\ \/ batch' = [batch EXCEPT !.task[i].pc = "done", !.semaphore = release(@)]
       \/ batch' = [batch EXCEPT !.task[i].pc = "done", !.semaphore = release(@),
                                 !.task[i].ret = Raised]
    /\ BatchUnchanged

\* line 88: gather(*tasks, return_exceptions=True) returns when every task ended
BatchGathered ==
    /\ batch.pc = "gather"
    /\ \A i \in BatchTasks : batch.task[i].pc = "done"
    /\ batch' = [batch EXCEPT !.pc = "report", !.i = 1]
    /\ BatchUnchanged

\* lines 91-95: for host, result in zip(hosts, results)
BatchReport ==
    /\ batch.pc = "report"
    /\ IF batch.i > Len(batch.hosts)
       THEN batch' = [batch EXCEPT !.pc = "returned"]
       ELSE LET res == batch.task[batch.i].ret[1] IN
            IF res.kind = "exception"
            THEN batch' = [batch EXCEPT
                             !.log = Append(@, [level |-> "error", i |-> batch.i]),
                             !.i = @ + 1]
            ELSE IF KeywordClash({"host"}, res.value)
                 THEN batch' = [batch EXCEPT !.pc = "raised"]
                 ELSE batch' = [batch EXCEPT
                                  !.log = Append(@, [level |-> "info", i |-> batch.i]),
                                  !.i = @ + 1]
    /\ BatchUnchanged

BatchNext ==
    \/ \E i \in BatchTasks : BatchAcquire(i)
    \/ \E i \in BatchTasks : BatchInitialize(i)
    \/ \E i \in BatchTasks : BatchCrawlStart(i)
    \/ \E i \in BatchTasks : BatchGetNext(i)
    \/ \E i \in BatchTasks : BatchCrawlEnd(i)
    \/ \E i \in BatchTasks : BatchClose(i)
    \/ BatchGathered
    \/ BatchReport

SpecBatch == BatchInit /\ [][BatchNext]_vars

\* the crawls between initialize and close
ActiveCrawls ==
    { i \in BatchTasks : batch.task[i].pc \in {"initialize", "crawl_host", "loop", "close"} }

\* the frontier a crawl has after taking k URLs, when nothing else touches it
OwnFrontier(host, k) ==
    LET f0 == URLFrontier(EmptyFrontier, seed_urls(host)) IN
    IF k = 0 THEN f0 ELSE get_next(f0, 0, Max(CrawlRateLimits)).f

(***************************************************************************)
(* C35  Batch concurrency bound: the batch command never has more than     *)
(* `concurrent` crawls between initialize and close; every crawl has its   *)
(* own Crawler, its own robots cache and its own frontier, which hold only *)
(* its own host and change only by its own steps, so no frontier or        *)
(* rate-limit state is shared between crawls.                              *)
(***************************************************************************)
C35_BatchBound ==
    /\ Cardinality(ActiveCrawls) <= batch.concurrent
    /\ \A i, j \in BatchTasks :
          i # j =>
             /\ batch.task[i].crawler # 0 => batch.task[i].crawler # batch.task[j].crawler
             /\ batch.task[i].frontier # 0 => batch.task[i].frontier # batch.task[j].frontier
    /\ \A i \in BatchTasks :
          /\ batch.task[i].crawler # 0 =>
                DOMAIN batch.crawlers[batch.task[i].crawler].robot_parsers
                    \subseteq {batch.hosts[i]}
          /\ batch.task[i].frontier # 0 =>
                batch.frontiers[batch.task[i].frontier]
                    = OwnFrontier(batch.hosts[i], batch.task[i].taken)

\* two crawls of the same host with two slots: both are in their loops, the
\* first has taken a URL and stamped the host, the second has not been held
\* back by it
C35_Witness ==
    /\ batch.concurrent = 2 /\ batch.hosts = <<Host, Host>>
    /\ batch.task[1].pc = "loop" /\ batch.task[1].taken = 1
    /\ batch.task[2].pc = "loop" /\ batch.task[2].taken = 0
    /\ Host \notin DOMAIN batch.frontiers[batch.task[2].frontier].host_last_access
    /\ Cardinality(ActiveCrawls) = batch.concurrent

Reported(i) == \E k \in 1..Len(batch.log) : batch.log[k].i = i

\* every task ran to its end on its own, whatever happened to the others
BatchIsolation ==
    batch.pc # "gather" =>
        \A i \in BatchTasks : batch.task[i].pc = "done" /\ batch.task[i].ret # <<>>

(***************************************************************************)
(* C36  Batch failure isolation: a crawl that raises does not cancel or    *)
(* prevent the crawls of the other hosts; when the batch command ends,     *)
(* every listed host's crawl has run to its end and its own result or its  *)
(* own error has been reported.                                            *)
(***************************************************************************)
C36_AsStated ==
    /\ BatchIsolation
    /\ batch.pc \in {"returned", "raised"} => \A i \in BatchTasks : Reported(i)

(***************************************************************************)
(* WebCrawler.crawl (backend) on its own, with a clock: wc.gets is the     *)
(* log of client.get calls with the times they were issued and answered.   *)
(***************************************************************************)
\* max_pages
WebMaxPages == {1, 3}

\* rate_limit, seconds between requests
WebRateLimits == {1, 2}

\* the time client.get takes
GetSeconds == {0, 1}

AssetURL == URL(Host, <<"/", "static", "/", "app.js">>)

\* WebCrawler._is_asset_url: an asset extension or an asset directory
is_asset_url(url) ==
    \E k \in 1..Len(url.tail) : url.tail[k] \in {"app.js", "static"}

\* list(set(links)): the links in any order
LinkOrders(links) ==
    { [i \in 1..Len(links) |-> links[p[i]]] : p \in Permutations(1..Len(links)) }

WebCrawlerInit ==
    /\ wc \in [site : {"linked", "plain", "mixed", "missing"},
               robots : {"none", "closed"},
               max_pages : WebMaxPages,
               rate_limit : WebRateLimits,
               queue : {<<Root>>, <<AssetURL>>},
               visited_urls : {{}},
               pages_crawled : {0},
               pages_failed : {0},
               clock : {0},
               gets : {<<>>},
               pc : {"loop"}]
    /\ frontier = EmptyFrontier
    /\ now = 0
    /\ ret = [op |-> "init"]
    /\ trueAdds = <<>>
    /\ handed = <<>>
    /\ d_in = <<>> /\ d_out = <<>>
    /\ NoCrawl /\ NoService /\ NoFetcher /\ NoPure /\ NoManifest /\ NoWriters
    /\ NoBatch

WebCrawlerUnchanged ==
    UNCHANGED <<frontier, now, fvars, dvars, cvars, svc, fcall, pure, mcall,
                writers, batch>>

\* await asyncio.sleep(self.rate_limit)
rate_limit_sleep(w) ==
    [w EXCEPT !.clock = @ + w.rate_limit]

\* one iteration of the loop, lines 71-151, without a progress callback
WebCrawlIterate ==
    /\ wc.pc = "loop"
    /\ wc.queue # <<>> /\ wc.pages_crawled < wc.max_pages
    /\ \E url \in {Head(wc.queue)}, queue \in {Tail(wc.queue)} :
       \E page \in {WebSite(wc.site, url)} :
       \E raises \in BOOLEAN, d \in GetSeconds :
       \E links \in LinkOrders(page.links) :
       \E get \in {[url |-> url, issued |-> wc.clock, answered |-> wc.clock + d]} :
        wc' =
          IF url \in wc.visited_urls \/ is_asset_url(url)
          THEN [wc EXCEPT !.queue = queue]
          ELSE IF ~web_can_fetch(wc.robots, url)
          THEN [wc EXCEPT !.queue = queue, !.visited_urls = @ \cup {url}]
          ELSE IF raises
          THEN \* client.get raises: pages_failed, then the sleep
               rate_limit_sleep(
                 [wc EXCEPT !.queue = queue, !.visited_urls = @ \cup {url},
                            !.gets = Append(@, get),
                            !.clock = @ + d,
                            !.pages_failed = @ + 1])
          ELSE IF page.status = 200 /\ ~page.html
          THEN \* not HTML: continue
               [wc EXCEPT !.queue = queue, !.visited_urls = @ \cup {url},
                          !.gets = Append(@, get),
                          !.clock = @ + d,
                          !.pages_crawled = @ + 1]
          ELSE rate_limit_sleep(
                 [wc EXCEPT
                    !.queue = IF page.status = 200
                                 /\ wc.pages_crawled + 1 < wc.max_pages
                              THEN enqueue_links(queue, wc.visited_urls \cup {url},
                                                 links, 1)
                              ELSE queue,
                    !.visited_urls = @ \cup {url},
                    !.gets = Append(@, get),
                    !.clock = @ + d,
                    !.pages_crawled = @ + 1,
                    !.pages_failed = IF page.status = 200 THEN @ ELSE @ + 1])
    /\ WebCrawlerUnchanged

\* lines 153-160: the loop is over
WebCrawlReturn ==
    /\ wc.pc = "loop"
    /\ ~(wc.queue # <<>> /\ wc.pages_crawled < wc.max_pages)
    /\ wc' = [wc EXCEPT !.pc = "returned"]
    /\ WebCrawlerUnchanged

WebCrawlerNext ==
    \/ WebCrawlIterate
    \/ WebCrawlReturn

SpecWebCrawler == WebCrawlerInit /\ [][WebCrawlerNext]_vars

(***************************************************************************)
(* C37  Backend WebCrawler politeness: after every page fetch, whatever    *)
(* the response (HTML, non-HTML, non-200 or exception), the crawl waits    *)
(* rate_limit seconds before it issues the next one, so every fetch is     *)
(* issued at least rate_limit seconds after the previous one was answered. *)
(***************************************************************************)
C37_AsStated ==
    \A k \in 1..(Len(wc.gets) - 1) :
        wc.gets[k + 1].issued - wc.gets[k].answered >= wc.rate_limit

====
